---- MODULE Spec2Model ----
(***************************************************************************)
(* Catalog reconciliation and query engine of the Meat_Cut repository:     *)
(* the relational store (meat_cuts, tag tables, junction tables,           *)
(* metadata), the CSV importer and exporter, the slug assigner, the        *)
(* Google Drive image matcher and the sync-status report.                  *)
(*                                                                         *)
(* Text is a sequence of one-character strings.  Numbers that hold prices  *)
(* are integers counting half dollars (12 is $6, 15 is $7.5), so that the  *)
(* mean of two whole-dollar prices is representable.                       *)
(***************************************************************************)
EXTENDS Integers, Sequences, FiniteSets, TLC

(***************************************************************************)
(* Bounds of the model.                                                    *)
(***************************************************************************)
MaxCuts == 2
MaxOps == 2
MaxCsvRows == 2
MaxExisting == 3
MaxAssign == 2
MaxImages == 3
MaxText == 3

(***************************************************************************)
(* JavaScript values.                                                      *)
(***************************************************************************)
NULL == <<"null">>
UNDEF == <<"undefined">>
EMPTY == <<>>
NaN == 9999
NoNum == 9998

Truthy(t) == t # EMPTY /\ t # NULL /\ t # UNDEF
Or(a, b) == IF Truthy(a) THEN a ELSE b
NumTruthy(n) == n # 0 /\ n # NaN /\ n # NoNum
NumOr(a, b) == IF NumTruthy(a) THEN a ELSE b

(***************************************************************************)
(* Character classes and string primitives.                                *)
(***************************************************************************)
Digits == <<"0", "1", "2", "3", "4", "5", "6", "7", "8", "9">>
DigitChars == {Digits[i] : i \in 1..10}
DigitVal(c) == (CHOOSE i \in 1..10 : Digits[i] = c) - 1
LowerLetters == {"a", "b", "c", "e", "f", "g", "i", "j", "n", "o", "p", "r", "s", "t", "u", "w", "y"}
UpperLetters == {"A", "B", "C", "N", "O", "T", "Y"}
SpaceChars == {" "}
WordChars == LowerLetters \cup UpperLetters \cup DigitChars \cup {"_"}
Alphabet == WordChars \cup SpaceChars \cup {"-", "!", "$", ".", ",", "+", "~", "\""}
LowerChar(c) ==
  CASE c = "A" -> "a" [] c = "B" -> "b" [] c = "C" -> "c"
    [] c = "N" -> "n" [] c = "O" -> "o" [] c = "T" -> "t"
    [] c = "Y" -> "y" [] OTHER -> c

toLowerCase(s) == [i \in 1..Len(s) |-> LowerChar(s[i])]

RECURSIVE TrimLeft(_, _)
TrimLeft(s, cls) ==
  IF s # <<>> /\ Head(s) \in cls THEN TrimLeft(Tail(s), cls) ELSE s

RECURSIVE TrimRight(_, _)
TrimRight(s, cls) ==
  IF s # <<>> /\ s[Len(s)] \in cls THEN TrimRight(SubSeq(s, 1, Len(s) - 1), cls) ELSE s

trim(s) == TrimRight(TrimLeft(s, SpaceChars), SpaceChars)

\* s.replace(/[cls]+/g, repl): every maximal run of characters of the class
\* becomes repl
RECURSIVE ReplaceRuns(_, _, _)
ReplaceRuns(s, cls, repl) ==
  IF s = <<>> THEN <<>>
  ELSE IF Head(s) \in cls THEN repl \o ReplaceRuns(TrimLeft(s, cls), cls, repl)
  ELSE <<Head(s)>> \o ReplaceRuns(Tail(s), cls, repl)

RECURSIVE NatStr(_)
NatStr(n) ==
  IF n < 10 THEN <<Digits[n + 1]>> ELSE NatStr(n \div 10) \o <<Digits[(n % 10) + 1]>>

RECURSIVE Includes(_, _)
Includes(s, sub) ==
  IF Len(sub) > Len(s) THEN FALSE
  ELSE IF SubSeq(s, 1, Len(sub)) = sub THEN TRUE
  ELSE Includes(Tail(s), sub)

(***************************************************************************)
(* utils/slugGenerator.js                                                  *)
(***************************************************************************)
generateSlug(text) ==
  IF ~Truthy(text) THEN EMPTY
  ELSE LET lowered == trim(toLowerCase(text))
           hyphenated == ReplaceRuns(lowered, SpaceChars \cup {"_"}, <<"-">>)
           stripped == ReplaceRuns(hyphenated, Alphabet \ (WordChars \cup {"-"}), <<>>)
           collapsed == ReplaceRuns(stripped, {"-"}, <<"-">>)
       IN TrimRight(TrimLeft(collapsed, {"-"}), {"-"})

SlugCandidate(baseSlug, counter) == baseSlug \o <<"-">> \o NatStr(counter)

\* the state of the loop is (slug, counter); checkExists is membership in the
\* set of slugs the store holds
RECURSIVE UniqueSlugLoop(_, _, _, _)
UniqueSlugLoop(baseSlug, slug, counter, existing) ==
  IF slug \in existing
    THEN UniqueSlugLoop(baseSlug, SlugCandidate(baseSlug, counter), counter + 1, existing)
    ELSE slug

generateUniqueSlugSync_NoCheck(baseSlug, existing) == baseSlug
generateUniqueSlugSync_FromZero(baseSlug, existing) ==
  UniqueSlugLoop(baseSlug, baseSlug, 0, existing)
generateUniqueSlugSync(baseSlug, existing) ==
  UniqueSlugLoop(baseSlug, baseSlug, 1, existing)

(***************************************************************************)
(* utils/validators.js                                                     *)
(* The en dash of the price display is written "~".                        *)
(***************************************************************************)
RemoveAll(s, cls) == SelectSeq(s, LAMBDA c : c \notin cls)

\* String.prototype.split with a one-character separator class: the pieces
\* between separators, empty pieces included
RECURSIVE SplitFrom(_, _, _)
SplitFrom(s, cls, cur) ==
  IF s = <<>> THEN <<cur>>
  ELSE IF Head(s) \in cls THEN <<cur>> \o SplitFrom(Tail(s), cls, <<>>)
  ELSE SplitFrom(Tail(s), cls, Append(cur, Head(s)))

Split(s, cls) == SplitFrom(s, cls, <<>>)

MapTrim(parts) == [i \in 1..Len(parts) |-> trim(parts[i])]
NonEmptyParts(parts) == SelectSeq(parts, LAMBDA q : Len(q) > 0)

RECURSIVE DigitsValue(_, _)
DigitsValue(s, acc) ==
  IF s # <<>> /\ Head(s) \in DigitChars
    THEN DigitsValue(Tail(s), 10 * acc + DigitVal(Head(s)))
    ELSE acc

\* parseFloat on an unsigned numeral: the longest numeric prefix, in half
\* units; a fraction counts when its first digit is 5
UnsignedFloat(s) ==
  LET intPart == TrimLeft(s, DigitChars)
      hasInt == Len(intPart) < Len(s)
      frac == IF intPart # <<>> /\ Head(intPart) = "." THEN Tail(intPart) ELSE <<>>
      hasFrac == frac # <<>> /\ Head(frac) \in DigitChars
  IN IF ~hasInt /\ ~hasFrac THEN NaN
     ELSE 2 * DigitsValue(s, 0) + (IF hasFrac /\ Head(frac) = "5" THEN 1 ELSE 0)

parseFloat(str) ==
  LET s == TrimLeft(str, SpaceChars)
  IN IF s # <<>> /\ Head(s) = "-"
       THEN (IF UnsignedFloat(Tail(s)) = NaN THEN NaN ELSE 0 - UnsignedFloat(Tail(s)))
     ELSE IF s # <<>> /\ Head(s) = "+" THEN UnsignedFloat(Tail(s))
     ELSE UnsignedFloat(s)

\* the character class of /[~\-\s+to\s+]/i
PriceSeparators == {"~", "-", " ", "+", "t", "o", "T", "O"}

NoPrices == [min |-> NaN, max |-> NaN, mean |-> NaN]

parsePriceDisplay_TwoTokens(priceDisplay) ==
  IF ~Truthy(priceDisplay) THEN NoPrices
  ELSE LET cleaned == trim(RemoveAll(priceDisplay, {"$"}))
           parts == NonEmptyParts(MapTrim(Split(cleaned, PriceSeparators)))
       IN IF Len(parts) < 2 THEN NoPrices
          ELSE LET min == parseFloat(parts[1])
                   max == parseFloat(parts[2])
               IN IF min = NaN \/ max = NaN THEN NoPrices
                  ELSE [min |-> min, max |-> max, mean |-> (min + max) \div 2]

\* NoPrices stands for the null result
parsePriceDisplay(priceDisplay) ==
  IF ~Truthy(priceDisplay) THEN NoPrices
  ELSE LET cleaned == trim(RemoveAll(priceDisplay, {"$"}))
           parts == NonEmptyParts(MapTrim(Split(cleaned, PriceSeparators)))
       IN IF Len(parts) < 1 THEN NoPrices
          ELSE LET min == parseFloat(parts[1])
                   max == IF Len(parts) > 1 THEN parseFloat(parts[2]) ELSE min
               IN IF min = NaN \/ max = NaN THEN NoPrices
                  ELSE [min |-> min, max |-> max, mean |-> (min + max) \div 2]

normalizeLean(value) ==
  IF value = UNDEF \/ value = NULL THEN FALSE
  ELSE trim(toLowerCase(value)) \in {<<"y", "e", "s">>, <<"t", "r", "u", "e">>, <<"1">>}

(***************************************************************************)
(* State.                                                                  *)
(*   meat_cuts, meat_cuts_seq     table meat_cuts and its AUTOINCREMENT    *)
(*   cooking_methods, recommended_dishes   tag tables; the id of a tag is  *)
(*                                its position (tags are never deleted)    *)
(*   mccm, mcrd                   junction tables, sets of <<cut, tag>>    *)
(*   metadata                     table metadata, key -> value             *)
(*   now                          the clock read by datetime('now')        *)
(*   drive                        the remote store: image folder listing,  *)
(*                                folders, id counter                      *)
(*   svc                          the GoogleDriveService singleton         *)
(*   imp                          the CSV import in progress               *)
(*   pass                         the image matching pass in progress      *)
(*   report                       the last sync-status response            *)
(*   fn                           inputs and results of the pure functions *)
(*   ops                          number of requests served                *)
(***************************************************************************)
VARIABLES meat_cuts, meat_cuts_seq, cooking_methods, recommended_dishes,
          mccm, mcrd, metadata, now, drive, svc, imp, pass, report, fn, ops

dbVars == <<meat_cuts, meat_cuts_seq, cooking_methods, recommended_dishes,
            mccm, mcrd, metadata>>
vars == <<meat_cuts, meat_cuts_seq, cooking_methods, recommended_dishes,
          mccm, mcrd, metadata, now, drive, svc, imp, pass, report, fn, ops>>

(***************************************************************************)
(* models/MeatCut.js                                                       *)
(***************************************************************************)
Slugs(cuts) == {r.slug : r \in cuts}

\* the slug MeatCut.create assigns when the caller gives none
AssignSlug(data, cuts) ==
  generateUniqueSlugSync(generateSlug(data.name), Slugs(cuts))

\* the values bound to the INSERT statement
InsertValues(data, cuts) ==
  [name |-> data.name,
   chinese_name |-> Or(data.chineseName, UNDEF),
   part |-> data.part,
   lean |-> IF data.lean THEN 1 ELSE 0,
   price_min |-> NumOr(data.priceMin, NoNum),
   price_max |-> NumOr(data.priceMax, NoNum),
   price_mean |-> NumOr(data.priceMean, NoNum),
   price_display |-> Or(data.priceDisplay, UNDEF),
   texture_notes |-> Or(data.textureNotes, NULL),
   image_reference |-> Or(data.imageReference, UNDEF),
   google_drive_image_id |-> Or(data.googleDriveImageId, NULL),
   google_drive_image_url |-> Or(data.googleDriveImageUrl, NULL),
   slug |-> AssignSlug(data, cuts)]

TextNotNull(t) == t # NULL /\ t # UNDEF
NumNotNull(n) == n # NoNum /\ n # NaN

\* the NOT NULL and UNIQUE constraints of init.sql; a violation makes
\* stmt.run throw
InsertAccepted(v, cuts) ==
  /\ TextNotNull(v.name) /\ TextNotNull(v.chinese_name) /\ TextNotNull(v.part)
  /\ NumNotNull(v.price_min) /\ NumNotNull(v.price_max) /\ NumNotNull(v.price_mean)
  /\ TextNotNull(v.price_display) /\ TextNotNull(v.image_reference)
  /\ TextNotNull(v.slug) /\ v.slug \notin Slugs(cuts)

NewRow(v, id, t) ==
  [id |-> id, name |-> v.name, chinese_name |-> v.chinese_name, part |-> v.part,
   lean |-> v.lean, price_min |-> v.price_min, price_max |-> v.price_max,
   price_mean |-> v.price_mean, price_display |-> v.price_display,
   texture_notes |-> v.texture_notes, image_reference |-> v.image_reference,
   google_drive_image_id |-> v.google_drive_image_id,
   google_drive_image_url |-> v.google_drive_image_url,
   slug |-> v.slug, updated_at |-> t]

\* MeatCut.create: the row inserted, when the insert is accepted
CreateThrows(data, cuts) == \E v \in {InsertValues(data, cuts)} : ~InsertAccepted(v, cuts)
CreatedRow(data, cuts, seq, t) ==
  CHOOSE r \in {NewRow(v, seq + 1, t) : v \in {InsertValues(data, cuts)}} : TRUE

FindById(cuts, id) == {r \in cuts : r.id = id}

\* MeatCut.delete, with the ON DELETE CASCADE of the junction tables
DeleteCut(cuts, id) == {r \in cuts : r.id # id}
CascadeEdges_None(edges, id) == edges

CascadeEdges(edges, id) == {e \in edges : e[1] # id}

(***************************************************************************)
(* models/CookingMethod.js, models/RecommendedDish.js                      *)
(***************************************************************************)
TagId(tags, name) == CHOOSE i \in 1..Len(tags) : tags[i] = name
HasTag(tags, name) == \E i \in 1..Len(tags) : tags[i] = name

findOrCreate_AlwaysInsert(tags, name) == Append(tags, name)

\* findOrCreate: the table after the call
findOrCreate(tags, name) == IF HasTag(tags, name) THEN tags ELSE Append(tags, name)

\* associateWithMeatCut: INSERT OR IGNORE
associateWithMeatCut(edges, cutId, tagId) == edges \cup {<<cutId, tagId>>}

\* for each name in order: findOrCreate, then associateWithMeatCut
RECURSIVE AssociateAll(_, _, _, _)
AssociateAll(tags, edges, cutId, names) ==
  IF names = <<>> THEN [tags |-> tags, edges |-> edges]
  ELSE LET t2 == findOrCreate(tags, Head(names))
       IN AssociateAll(t2, associateWithMeatCut(edges, cutId, TagId(t2, Head(names))),
                       cutId, Tail(names))

(***************************************************************************)
(* utils/csvImporter.js                                                    *)
(* A parsed CSV row is a function from the headers of the file to text.    *)
(***************************************************************************)
Get(row, h) == IF h \in DOMAIN row THEN row[h] ELSE UNDEF

\* row[h1] || row[h2] || ... || dflt
RECURSIVE FirstOf(_, _, _)
FirstOf(row, hs, dflt) ==
  IF hs = <<>> THEN dflt
  ELSE IF Truthy(Get(row, Head(hs))) THEN Get(row, Head(hs))
  ELSE FirstOf(row, Tail(hs), dflt)

ImportIdHeaders == <<"Google Drive Image ID", "google_drive_image_id", "googleDriveImageId">>
ImportUrlHeaders == <<"Google Drive Image URL", "google_drive_image_url", "googleDriveImageUrl">>
ImportRefHeaders == <<"image reference", "imageReference", "image_reference">>

parseCookingMethods(methodsStr) ==
  IF ~Truthy(methodsStr) THEN <<>>
  ELSE NonEmptyParts(MapTrim(Split(methodsStr, {","})))

parseRecommendedDishes(dishesStr) ==
  IF ~Truthy(dishesStr) THEN <<>>
  ELSE NonEmptyParts(MapTrim(Split(dishesStr, {","})))

RowPriceDisplay(row) == FirstOf(row, <<"Approx. Price", "Approx Price">>, EMPTY)

\* meatCutData of the row loop; prices is the result of parsePriceDisplay
RowDataWith(row, prices) ==
  [name |-> FirstOf(row, <<"Name", "name">>, EMPTY),
   chineseName |-> FirstOf(row, <<"Chinese Name", "chineseName">>, EMPTY),
   part |-> FirstOf(row, <<"Part", "part">>, EMPTY),
   lean |-> normalizeLean(FirstOf(row, <<"Lean", "lean">>, UNDEF)),
   priceMin |-> prices.min,
   priceMax |-> prices.max,
   priceMean |-> prices.mean,
   priceDisplay |-> RowPriceDisplay(row),
   textureNotes |-> FirstOf(row, <<"Texture & Notes", "textureNotes">>, NULL),
   imageReference |-> FirstOf(row, ImportRefHeaders, EMPTY),
   googleDriveImageId |-> FirstOf(row, ImportIdHeaders, NULL),
   googleDriveImageUrl |-> FirstOf(row, ImportUrlHeaders, NULL)]

RowMeatCutData(row) ==
  CHOOSE d \in {RowDataWith(row, prices) : prices \in {parsePriceDisplay(RowPriceDisplay(row))}} : TRUE

RowCookingMethods(row) ==
  parseCookingMethods(FirstOf(row, <<"Rec. Cooking Methods", "cookingMethods">>, EMPTY))
RowRecommendedDishes(row) ==
  parseRecommendedDishes(FirstOf(row, <<"Recommended Dishes", "recommendedDishes">>, EMPTY))

\* the outcome of one iteration of the row loop
RowOutcome(row, cuts) ==
  CHOOSE o \in {"invalid_price", "missing_fields", "exception", "imported"} :
    \E d \in {RowMeatCutData(row)} :
      o = IF d.priceMin = NaN THEN "invalid_price"
          ELSE IF ~Truthy(d.name) \/ ~Truthy(d.chineseName) \/ ~Truthy(d.part)
                  \/ ~Truthy(d.imageReference) THEN "missing_fields"
          ELSE IF CreateThrows(d, cuts) THEN "exception"
          ELSE "imported"

\* the loop index after the iteration on row i: `continue` and the catch
\* block both fall through to i++
NextRowIndex_Break(i, outcome) == IF outcome = "imported" THEN i + 1 ELSE i + 1000
NextRowIndex(i, outcome) == i + 1

\* whether the UPDATE of last_meat_cuts_update runs when the loop is over
ImportRefreshesMetadata(imported) == TRUE

NoImport == [pc |-> "idle", rows |-> <<>>, i |-> 1, imported |-> 0, success |-> TRUE,
             errors |-> <<>>]

(***************************************************************************)
(* services/googleDriveService.js, config/googleDrive.js                   *)
(* drive.files is the content of the image folder, drive.folders the       *)
(* folders that exist, drive.seq the number of ids the store has issued,   *)
(* drive.csv the number of files in the CSV folder.                        *)
(* svc.cfg is the folder id the environment configures: "id" for a folder  *)
(* id, "root" for the get-or-create path through the base folder.          *)
(***************************************************************************)
UrlPrefix == <<"u", "=">>
getImageUrl(fileId) == IF ~Truthy(fileId) THEN NULL ELSE UrlPrefix \o fileId

DriveId(n) == <<"f">> \o NatStr(n)
ImageMime == "image/jpeg"

IsImage(f) == f.mimeType \in {"image/jpeg", "image/png"}

\* drive.files.create with parents [folderId], then permissions.create
UploadedFile(d, fileName) == [id |-> DriveId(d.seq + 1), name |-> fileName, mimeType |-> ImageMime]
DriveAfterUpload(d, fileName) ==
  [d EXCEPT !.files = @ \cup {UploadedFile(d, fileName)}, !.seq = @ + 1]

\* drive.files.delete; a missing file is a 404, taken as deleted
DriveAfterDelete(d, fileId) == [d EXCEPT !.files = {f \in @ : f.id # fileId}]

\* getOrCreateFolder(drive, name, parent, envFolderId): the folders of the
\* store after the call; with an envFolderId the folder is only read
FoldersAfterGetOrCreate(folders, name, envFolderId) ==
  IF envFolderId THEN folders ELSE folders \cup {name}

\* getOrCreateImageFolder: a configured folder id other than 'root' is
\* verified with files.get, otherwise the base folder and the images folder
\* are looked up by name and created when absent
FoldersAfterImageFolder(folders, cfg) ==
  IF cfg = "id" THEN FoldersAfterGetOrCreate(folders, "Images", TRUE)
  ELSE FoldersAfterGetOrCreate(FoldersAfterGetOrCreate(folders, "meat-cut-app", FALSE),
                               "Images", FALSE)

\* files.get on a configured folder id throws when the folder is absent
ImageFolderThrows(folders, cfg) == cfg = "id" /\ "Images" \notin folders

\* GoogleDriveService.initialize / ensureInitialized
DriveAfterInitialize(d, s) ==
  IF s.initialized \/ ImageFolderThrows(d.folders, s.cfg) THEN d
  ELSE [d EXCEPT !.folders = FoldersAfterImageFolder(@, s.cfg)]
SvcAfterInitialize(d, s) ==
  IF s.initialized \/ ImageFolderThrows(d.folders, s.cfg) THEN s
  ELSE [s EXCEPT !.initialized = TRUE]
InitializeThrows(d, s) == ~s.initialized /\ ImageFolderThrows(d.folders, s.cfg)

(***************************************************************************)
(* routes/admin.js: POST /meat-cuts                                        *)
(* A request body is a record of form fields; UNDEF marks an absent field. *)
(***************************************************************************)
NumMean(a, b) == IF a = NaN \/ b = NaN THEN NaN ELSE (a + b) \div 2

DefaultDisplay(b) ==
  <<"$">> \o Or(b.priceMin, <<"0">>) \o <<" ", "~", " ", "$">> \o Or(b.priceMax, <<"0">>)

\* meatCutData before the image is handled
PostMeatCutData(b) ==
  [name |-> trim(Or(b.name, EMPTY)),
   chineseName |-> Or(b.chineseName, EMPTY),
   part |-> trim(Or(b.part, <<"O", "t", "h", "e", "r">>)),
   lean |-> normalizeLean(b.lean),
   priceMin |-> parseFloat(Or(b.priceMin, <<"0">>)),
   priceMax |-> parseFloat(Or(b.priceMax, <<"0">>)),
   priceMean |-> NumMean(parseFloat(Or(b.priceMin, <<"0">>)), parseFloat(Or(b.priceMax, <<"0">>))),
   priceDisplay |-> Or(b.priceDisplay, DefaultDisplay(b)),
   textureNotes |-> Or(b.textureNotes, NULL),
   imageReference |-> Or(b.imageReference, EMPTY),
   googleDriveImageId |-> Or(b.googleDriveImageId, NULL),
   googleDriveImageUrl |-> Or(b.googleDriveImageUrl, NULL)]

UploadName(ref, name) ==
  Or(ref, ReplaceRuns(toLowerCase(name), SpaceChars, <<"-">>)) \o <<".", "j", "p", "g">>

\* meatCutData once the image is handled: an uploaded file, or an existing
\* Drive image named by the request
PostWithImage(b, d) ==
  LET m == PostMeatCutData(b)
  IN IF b.file
       THEN [m EXCEPT !.googleDriveImageId = UploadedFile(d, UploadName(m.imageReference, m.name)).id,
                      !.googleDriveImageUrl = getImageUrl(UploadedFile(d, UploadName(m.imageReference, m.name)).id)]
     ELSE IF Truthy(b.googleDriveImageId)
       THEN [m EXCEPT !.googleDriveImageId = b.googleDriveImageId,
                      !.googleDriveImageUrl = getImageUrl(b.googleDriveImageId)]
     ELSE m

\* the tag names the handlers pass to findOrCreate: trimmed, blanks skipped
RequestTags(names) == NonEmptyParts(MapTrim(names))

\* UPDATE metadata SET value = datetime('now') WHERE key = 'last_meat_cuts_update'
TouchMetadata(md, t) == [md EXCEPT !["last_meat_cuts_update"] = t]

AdminCreate(b) ==
  /\ imp.pc # "rows"
  /\ ops < MaxOps
  /\ meat_cuts_seq < MaxCuts
  /\ \/ \* MeatCut.create throws: 500 after the upload
        /\ ~b.file \/ (drive.seq < MaxCuts /\ ~InitializeThrows(drive, svc))
        /\ CreateThrows(PostWithImage(b, drive), meat_cuts)
        /\ drive' = IF b.file
                      THEN DriveAfterUpload(DriveAfterInitialize(drive, svc),
                                            UploadName(PostMeatCutData(b).imageReference, PostMeatCutData(b).name))
                      ELSE drive
        /\ svc' = IF b.file THEN SvcAfterInitialize(drive, svc) ELSE svc
        /\ ops' = ops + 1
        /\ UNCHANGED <<dbVars, now, imp, pass, report, fn>>
     \/ /\ ~b.file \/ (drive.seq < MaxCuts /\ ~InitializeThrows(drive, svc))
        /\ ~CreateThrows(PostWithImage(b, drive), meat_cuts)
        /\ LET row == CreatedRow(PostWithImage(b, drive), meat_cuts, meat_cuts_seq, now)
               cm == AssociateAll(cooking_methods, mccm, row.id, RequestTags(b.cookingMethods))
               rd == AssociateAll(recommended_dishes, mcrd, row.id, RequestTags(b.recommendedDishes))
           IN /\ meat_cuts' = meat_cuts \cup {row}
              /\ meat_cuts_seq' = row.id
              /\ cooking_methods' = cm.tags
              /\ mccm' = cm.edges
              /\ recommended_dishes' = rd.tags
              /\ mcrd' = rd.edges
        /\ metadata' = TouchMetadata(metadata, now)
        /\ now' = now + 1
        /\ drive' = IF b.file
                      THEN DriveAfterUpload(DriveAfterInitialize(drive, svc),
                                            UploadName(PostMeatCutData(b).imageReference, PostMeatCutData(b).name))
                      ELSE drive
        /\ svc' = IF b.file THEN SvcAfterInitialize(drive, svc) ELSE svc
        /\ ops' = ops + 1
        /\ UNCHANGED <<imp, pass, report, fn>>

(***************************************************************************)
(* routes/admin.js: DELETE /meat-cuts/:id                                  *)
(***************************************************************************)
AdminDelete(id) ==
  /\ imp.pc # "rows"
  /\ ops < MaxOps
  /\ FindById(meat_cuts, id) # {}
  /\ LET existing == CHOOSE r \in meat_cuts : r.id = id
     IN \E deleteImageOk \in BOOLEAN :
          /\ drive' = IF Truthy(existing.google_drive_image_id) /\ deleteImageOk
                          /\ ~InitializeThrows(drive, svc)
                        THEN DriveAfterDelete(DriveAfterInitialize(drive, svc), existing.google_drive_image_id)
                        ELSE drive
          /\ svc' = IF Truthy(existing.google_drive_image_id) /\ deleteImageOk
                      THEN SvcAfterInitialize(drive, svc) ELSE svc
  /\ meat_cuts' = DeleteCut(meat_cuts, id)
  /\ mccm' = CascadeEdges(mccm, id)
  /\ mcrd' = CascadeEdges(mcrd, id)
  /\ metadata' = TouchMetadata(metadata, now)
  /\ now' = now + 1
  /\ ops' = ops + 1
  /\ UNCHANGED <<meat_cuts_seq, cooking_methods, recommended_dishes, imp, pass, report, fn>>

(***************************************************************************)
(* routes/admin.js: PUT /meat-cuts/:id and MeatCut.update                  *)
(* In updateData UNDEF (NoNum for numbers and for lean) marks a field that *)
(* is not set; NoTags marks an absent tag list.                            *)
(***************************************************************************)
NoTags == <<UNDEF>>

PutUpdateData(b) ==
  [name |-> IF b.name # UNDEF THEN trim(b.name) ELSE UNDEF,
   chineseName |-> Or(b.chineseName, UNDEF),
   part |-> IF b.part # UNDEF THEN trim(b.part) ELSE UNDEF,
   lean |-> IF b.lean # UNDEF THEN (IF normalizeLean(b.lean) THEN 1 ELSE 0) ELSE NoNum,
   priceMin |-> IF b.priceMin # UNDEF THEN parseFloat(b.priceMin) ELSE NoNum,
   priceMax |-> IF b.priceMax # UNDEF THEN parseFloat(b.priceMax) ELSE NoNum,
   priceMean |-> IF b.priceMean # UNDEF THEN parseFloat(b.priceMean) ELSE NoNum,
   priceDisplay |-> Or(b.priceDisplay, UNDEF),
   textureNotes |-> IF b.textureNotes # UNDEF THEN Or(b.textureNotes, NULL) ELSE UNDEF,
   imageReference |-> Or(b.imageReference, UNDEF),
   googleDriveImageId |-> IF b.googleDriveImageId # UNDEF THEN Or(b.googleDriveImageId, NULL) ELSE UNDEF,
   googleDriveImageUrl |-> IF b.googleDriveImageUrl # UNDEF THEN Or(b.googleDriveImageUrl, NULL) ELSE UNDEF]

\* updateData once the image is handled; newId is the id Drive returns for
\* the uploaded or updated file
PutWithImage(b, existing, newId) ==
  LET u == PutUpdateData(b)
  IN IF b.file
       THEN [u EXCEPT !.googleDriveImageId = newId, !.googleDriveImageUrl = getImageUrl(newId)]
     ELSE IF Truthy(b.googleDriveImageId) /\ b.googleDriveImageId # existing.google_drive_image_id
       THEN [u EXCEPT !.googleDriveImageId = b.googleDriveImageId,
                      !.googleDriveImageUrl = getImageUrl(b.googleDriveImageId)]
     ELSE u

\* MeatCut.update: a field that is !== undefined is written; the value bound
\* is `x || undefined` (`|| null` for the nullable columns), and binding
\* undefined makes the statement throw
NoUpdates(u) ==
  /\ u.name = UNDEF /\ u.chineseName = UNDEF /\ u.part = UNDEF /\ u.lean = NoNum
  /\ u.priceMin = NoNum /\ u.priceMax = NoNum /\ u.priceMean = NoNum
  /\ u.priceDisplay = UNDEF /\ u.textureNotes = UNDEF /\ u.imageReference = UNDEF
  /\ u.googleDriveImageId = UNDEF /\ u.googleDriveImageUrl = UNDEF

UpdateThrows(u) ==
  \/ u.priceMin # NoNum /\ ~NumTruthy(u.priceMin)
  \/ u.priceMax # NoNum /\ ~NumTruthy(u.priceMax)
  \/ u.priceMean # NoNum /\ ~NumTruthy(u.priceMean)

UpdatedRow(r, u, t) ==
  IF NoUpdates(u) THEN r
  ELSE [r EXCEPT
         !.name = IF u.name # UNDEF THEN u.name ELSE @,
         !.chinese_name = IF u.chineseName # UNDEF THEN u.chineseName ELSE @,
         !.part = IF u.part # UNDEF THEN u.part ELSE @,
         !.lean = IF u.lean # NoNum THEN u.lean ELSE @,
         !.price_min = IF u.priceMin # NoNum THEN u.priceMin ELSE @,
         !.price_max = IF u.priceMax # NoNum THEN u.priceMax ELSE @,
         !.price_mean = IF u.priceMean # NoNum THEN u.priceMean ELSE @,
         !.price_display = IF u.priceDisplay # UNDEF THEN u.priceDisplay ELSE @,
         !.texture_notes = IF u.textureNotes # UNDEF THEN Or(u.textureNotes, NULL) ELSE @,
         !.image_reference = IF u.imageReference # UNDEF THEN u.imageReference ELSE @,
         !.google_drive_image_id = IF u.googleDriveImageId # UNDEF THEN Or(u.googleDriveImageId, NULL) ELSE @,
         !.google_drive_image_url = IF u.googleDriveImageUrl # UNDEF THEN Or(u.googleDriveImageUrl, NULL) ELSE @,
         !.updated_at = t]

\* the Drive id PUT gets back for an uploaded file: updateImage keeps the id
\* of the existing image, uploadImage creates a file
PutImageId(existing, d) ==
  IF Truthy(existing.google_drive_image_id) THEN existing.google_drive_image_id
  ELSE UploadedFile(d, UploadName(existing.image_reference, existing.name)).id

\* files.update on an image that is gone throws
PutUploadThrows(existing, d, s) ==
  \/ InitializeThrows(d, s)
  \/ Truthy(existing.google_drive_image_id)
       /\ existing.google_drive_image_id \notin {f.id : f \in d.files}

DriveAfterPutUpload(b, existing, d, s) ==
  IF ~b.file \/ Truthy(existing.google_drive_image_id) THEN DriveAfterInitialize(d, s)
  ELSE DriveAfterUpload(DriveAfterInitialize(d, s),
                        UploadName(Or(b.imageReference, existing.image_reference), existing.name))

AdminUpdate(id, b) ==
  /\ imp.pc # "rows"
  /\ ops < MaxOps
  /\ FindById(meat_cuts, id) # {}
  /\ ~b.file \/ (drive.seq < MaxCuts /\ ~PutUploadThrows(CHOOSE r \in meat_cuts : r.id = id, drive, svc))
  /\ LET existing == CHOOSE r \in meat_cuts : r.id = id
         u == PutWithImage(b, existing, PutImageId(existing, drive))
         cm == IF b.cookingMethods # NoTags
                 THEN AssociateAll(cooking_methods, CascadeEdges(mccm, id), id, RequestTags(b.cookingMethods))
                 ELSE [tags |-> cooking_methods, edges |-> mccm]
         rd == IF b.recommendedDishes # NoTags
                 THEN AssociateAll(recommended_dishes, CascadeEdges(mcrd, id), id, RequestTags(b.recommendedDishes))
                 ELSE [tags |-> recommended_dishes, edges |-> mcrd]
     IN /\ drive' = IF b.file THEN DriveAfterPutUpload(b, existing, drive, svc) ELSE drive
        /\ svc' = IF b.file THEN SvcAfterInitialize(drive, svc) ELSE svc
        /\ IF UpdateThrows(u)
             THEN UNCHANGED <<dbVars, now>>
             ELSE /\ meat_cuts' = (meat_cuts \ {existing}) \cup {UpdatedRow(existing, u, now)}
                  /\ cooking_methods' = cm.tags
                  /\ mccm' = cm.edges
                  /\ recommended_dishes' = rd.tags
                  /\ mcrd' = rd.edges
                  /\ metadata' = TouchMetadata(metadata, now)
                  /\ now' = now + 1
                  /\ UNCHANGED meat_cuts_seq
  /\ ops' = ops + 1
  /\ UNCHANGED <<imp, pass, report, fn>>

(***************************************************************************)
(* utils/csvImporter.js: importMeatCutsFromCSV.  The 'end' callback runs   *)
(* to completion without yielding; it is stepped row by row here and no    *)
(* other handler is enabled while imp.pc = "rows".                         *)
(***************************************************************************)
\* the catalog after MeatCut.create(meatCutData) of the row loop
CutsAfterImport_Upsert(cuts, new) == {r \in cuts : r.name # new.name} \cup {new}
CutsAfterImport(cuts, new) == cuts \cup {new}

ImportError(i, outcome) == [row |-> i + 1, error |-> outcome]

ImportBegin(file) ==
  /\ imp.pc # "rows"
  /\ ops < MaxOps
  /\ meat_cuts_seq + Len(file) <= MaxCuts
  /\ imp' = [NoImport EXCEPT !.pc = "rows", !.rows = file]
  /\ ops' = ops + 1
  /\ UNCHANGED <<dbVars, now, drive, svc, pass, report, fn>>

ImportRow ==
  /\ imp.pc = "rows"
  /\ imp.i <= Len(imp.rows)
  /\ LET row == imp.rows[imp.i]
         outcome == RowOutcome(row, meat_cuts)
     IN IF outcome = "imported"
          THEN LET new == CreatedRow(RowMeatCutData(row), meat_cuts, meat_cuts_seq, now)
                   cm == AssociateAll(cooking_methods, mccm, new.id, RowCookingMethods(row))
                   rd == AssociateAll(recommended_dishes, mcrd, new.id, RowRecommendedDishes(row))
               IN /\ meat_cuts' = CutsAfterImport(meat_cuts, new)
                  /\ meat_cuts_seq' = new.id
                  /\ cooking_methods' = cm.tags
                  /\ mccm' = cm.edges
                  /\ recommended_dishes' = rd.tags
                  /\ mcrd' = rd.edges
                  /\ imp' = [imp EXCEPT !.i = NextRowIndex(imp.i, outcome), !.imported = @ + 1]
          ELSE /\ imp' = [imp EXCEPT !.i = NextRowIndex(imp.i, outcome),
                                     !.success = IF outcome = "exception" THEN FALSE ELSE @,
                                     !.errors = Append(@, ImportError(imp.i, outcome))]
               /\ UNCHANGED <<meat_cuts, meat_cuts_seq, cooking_methods, recommended_dishes,
                              mccm, mcrd>>
  /\ UNCHANGED <<metadata, now, drive, svc, pass, report, fn, ops>>

ImportFinish ==
  /\ imp.pc = "rows"
  /\ imp.i > Len(imp.rows)
  /\ metadata' = IF ImportRefreshesMetadata(imp.imported) THEN TouchMetadata(metadata, now)
                 ELSE metadata
  /\ now' = now + 1
  /\ imp' = [imp EXCEPT !.pc = "done"]
  /\ UNCHANGED <<meat_cuts, meat_cuts_seq, cooking_methods, recommended_dishes, mccm, mcrd,
                 drive, svc, pass, report, fn, ops>>

(***************************************************************************)
(* Inputs of the catalog specification.                                    *)
(***************************************************************************)
BaseBody ==
  [name |-> <<"a">>, chineseName |-> <<"c">>, part |-> <<"b">>, lean |-> <<"t", "r", "u", "e">>,
   priceMin |-> <<"6">>, priceMax |-> <<"9">>, priceMean |-> UNDEF, priceDisplay |-> UNDEF,
   textureNotes |-> UNDEF, imageReference |-> <<"a">>, googleDriveImageId |-> UNDEF,
   googleDriveImageUrl |-> UNDEF, cookingMethods |-> <<<<"g">>>>,
   recommendedDishes |-> <<>>, file |-> FALSE]

CreateBodies ==
  { BaseBody,
    [BaseBody EXCEPT !.name = <<"A">>, !.file = TRUE],
    [BaseBody EXCEPT !.name = <<"a", " ", "1">>, !.googleDriveImageId = DriveId(1),
                     !.cookingMethods = <<>>],
    [BaseBody EXCEPT !.name = <<"!">>, !.priceMin = <<"9">>, !.priceMax = <<"6">>],
    [BaseBody EXCEPT !.priceMin = <<"0">>] }

NoBody ==
  [name |-> UNDEF, chineseName |-> UNDEF, part |-> UNDEF, lean |-> UNDEF,
   priceMin |-> UNDEF, priceMax |-> UNDEF, priceMean |-> UNDEF, priceDisplay |-> UNDEF,
   textureNotes |-> UNDEF, imageReference |-> UNDEF, googleDriveImageId |-> UNDEF,
   googleDriveImageUrl |-> UNDEF, cookingMethods |-> NoTags,
   recommendedDishes |-> NoTags, file |-> FALSE]

UpdateBodies ==
  { [NoBody EXCEPT !.name = <<"a">>],
    [NoBody EXCEPT !.cookingMethods = <<<<"p">>>>],
    [NoBody EXCEPT !.googleDriveImageId = EMPTY],
    [NoBody EXCEPT !.priceMin = <<"0">>] }

GoodRow ==
  ("Name" :> <<"a">>) @@ ("Chinese Name" :> <<"c">>) @@ ("Part" :> <<"b">>)
  @@ ("Lean" :> <<"Y", "e", "s">>) @@ ("Approx. Price" :> <<"$", "6", " ", "~", " ", "$", "9">>)
  @@ ("image reference" :> <<"a">>) @@ ("Rec. Cooking Methods" :> <<"g", ",", " ", "p">>)

SnakeRow ==
  ("name" :> <<"a", " ", "1">>) @@ ("chineseName" :> <<"c">>) @@ ("part" :> <<"b">>)
  @@ ("lean" :> <<"N", "o">>) @@ ("Approx Price" :> <<"$", "1", "-", "$", "2">>)
  @@ ("imageReference" :> <<"a">>) @@ ("google_drive_image_id" :> DriveId(1))
  @@ ("google_drive_image_url" :> getImageUrl(DriveId(1)))

\* the good row, the snake-case row, and the good row with a price that does
\* not parse, with an empty name, with a minimum price of 0
CsvRowPool ==
  {GoodRow, SnakeRow,
   ("Approx. Price" :> <<"a", "b">>) @@ GoodRow,
   ("Name" :> EMPTY) @@ GoodRow,
   ("Approx. Price" :> <<"$", "0", " ", "~", " ", "$", "5">>) @@ GoodRow}

SeqsUpTo(S, n) == UNION {[1..k -> S] : k \in 0..n}

CsvFiles == SeqsUpTo(CsvRowPool, MaxCsvRows) \ {<<>>}

(***************************************************************************)
(* The catalog specification: admin requests and CSV imports.              *)
(***************************************************************************)
NoPass == [pc |-> "idle"]
NoReport == [n |-> 0]
NoFn == [pc |-> "idle"]
EmptyDrive == [files |-> {}, folders |-> {"Images"}, seq |-> 0, csv |-> 0]

Init ==
  /\ meat_cuts = {}
  /\ meat_cuts_seq = 0
  /\ cooking_methods = <<>>
  /\ recommended_dishes = <<>>
  /\ mccm = {}
  /\ mcrd = {}
  /\ metadata = [k \in {"last_meat_cuts_update"} |-> 0]
  /\ now = 1
  /\ drive = EmptyDrive
  /\ svc = [initialized |-> FALSE, cfg |-> "id"]
  /\ imp = NoImport
  /\ pass = NoPass
  /\ report = NoReport
  /\ fn = NoFn
  /\ ops = 0

Create == \E b \in CreateBodies : AdminCreate(b)
Update == \E id \in 1..MaxCuts, b \in UpdateBodies : AdminUpdate(id, b)
Delete == \E id \in 1..MaxCuts : AdminDelete(id)
Import == \E file \in CsvFiles : ImportBegin(file)

Next == Create \/ Update \/ Delete \/ Import \/ ImportRow \/ ImportFinish

Spec == Init /\ [][Next]_vars

(***************************************************************************)
(* Properties of the catalog specification.                                *)
(***************************************************************************)
Ids(cuts) == {r.id : r \in cuts}

\* C1: no two catalog rows have the same slug, and the slug MeatCut.create
\* would assign to any request differs from the slug of every row in the store
C1_SlugsUnique ==
  /\ \A r1, r2 \in meat_cuts : r1.id # r2.id => r1.slug # r2.slug
  /\ \A b \in CreateBodies : AssignSlug(PostMeatCutData(b), meat_cuts) \notin Slugs(meat_cuts)

\* two rows created from the same name hold different slugs
C1_Witness ==
  \E r1, r2 \in meat_cuts : r1.id # r2.id /\ r1.name = r2.name /\ r1.slug # r2.slug

\* the claim's reading of a rejected row, on the headers of the file
HasValue(row, hs) == \E h \in hs : h \in DOMAIN row /\ row[h] # EMPTY
MissingRequired(row) ==
  \/ ~HasValue(row, {"Name", "name"})
  \/ ~HasValue(row, {"Chinese Name", "chineseName"})
  \/ ~HasValue(row, {"Part", "part"})
  \/ ~HasValue(row, {"image reference", "imageReference", "image_reference"})
InvalidPrice(row) == parsePriceDisplay(RowPriceDisplay(row)) = NoPrices
Rejected(row) == InvalidPrice(row) \/ MissingRequired(row)

\* C4: every iteration of the row loop moves on to the next row; a rejected
\* row adds one error entry with its source row number and a reason and
\* inserts nothing; a row that is not rejected and that the store accepts is
\* inserted, whatever errors came before it
C4_RowIndependent ==
  [][(imp.pc = "rows" /\ imp.i <= Len(imp.rows)) =>
       LET row == imp.rows[imp.i]
       IN /\ imp'.pc = "rows" /\ imp'.i = imp.i + 1
          /\ Rejected(row) =>
               /\ meat_cuts' = meat_cuts /\ mccm' = mccm /\ mcrd' = mcrd
               /\ imp'.imported = imp.imported
               /\ Len(imp'.errors) = Len(imp.errors) + 1
               /\ imp'.errors[Len(imp'.errors)].row = imp.i + 1
               /\ imp'.errors[Len(imp'.errors)].error \in {"invalid_price", "missing_fields"}
          /\ (~Rejected(row) /\ ~CreateThrows(RowMeatCutData(row), meat_cuts)) =>
               /\ Cardinality(meat_cuts') = Cardinality(meat_cuts) + 1
               /\ imp'.imported = imp.imported + 1
               /\ imp'.errors = imp.errors]_vars

\* a file whose first row was rejected and whose second row was inserted
C4_Witness ==
  /\ imp.pc = "done" /\ Len(imp.rows) = 2
  /\ Len(imp.errors) = 1 /\ imp.errors[1].row = 2 /\ imp.imported = 1
  /\ Rejected(imp.rows[1])

\* C5: a step of the import keeps every row the catalog held, with all its
\* fields, its slug and its tag edges, and the catalog grows by the number
\* of rows inserted
C5_Additive ==
  [][imp.pc = "rows" =>
       /\ meat_cuts \subseteq meat_cuts'
       /\ {e \in mccm' : e[1] \in Ids(meat_cuts)} = mccm
       /\ {e \in mcrd' : e[1] \in Ids(meat_cuts)} = mcrd
       /\ Cardinality(meat_cuts') = Cardinality(meat_cuts) + (imp'.imported - imp.imported)]_vars

\* an import has inserted a row that has the name and the asset-reference
\* key of a row the catalog held before the import
C5_Witness ==
  /\ imp.pc = "rows" /\ imp.imported >= 1
  /\ \E r1, r2 \in meat_cuts :
       /\ r1.id <= meat_cuts_seq - imp.imported /\ r2.id > meat_cuts_seq - imp.imported
       /\ r1.name = r2.name /\ r1.image_reference = r2.image_reference

\* C6: during an import last_meat_cuts_update changes in exactly one step,
\* the one that ends the import, and only if a row was inserted
C6_RefreshedOnceIfInserted ==
  [][imp.pc = "rows" =>
       ((metadata' # metadata) <=> (imp'.pc = "done" /\ imp.imported >= 1))]_vars

(***************************************************************************)
(* The slug specification: generateUniqueSlugSync applied, one call after  *)
(* the other, to one base slug; the slug each call returns is taken by the *)
(* record it was generated for before the next call.                       *)
(***************************************************************************)
InitSlug ==
  /\ meat_cuts = {}
  /\ meat_cuts_seq = 0
  /\ cooking_methods = <<>>
  /\ recommended_dishes = <<>>
  /\ mccm = {}
  /\ mcrd = {}
  /\ metadata = [k \in {"last_meat_cuts_update"} |-> 0]
  /\ now = 1
  /\ drive = EmptyDrive
  /\ svc = [initialized |-> FALSE, cfg |-> "id"]
  /\ imp = NoImport
  /\ pass = NoPass
  /\ report = NoReport
  /\ \E b \in {generateSlug(<<"A">>), generateSlug(<<"a", " ", "b">>), generateSlug(<<"!">>)} :
     \E e \in SUBSET ({b, <<"z">>} \cup {SlugCandidate(b, k) : k \in 1..MaxExisting}) :
       fn = [pc |-> "slug", baseSlug |-> b, existing0 |-> e, existing |-> e, slugs |-> <<>>]
  /\ ops = 0

SlugAssign ==
  /\ fn.pc = "slug"
  /\ Len(fn.slugs) < MaxAssign
  /\ \E slug \in {generateUniqueSlugSync(fn.baseSlug, fn.existing)} :
       fn' = [fn EXCEPT !.slugs = Append(@, slug), !.existing = @ \cup {slug}]
  /\ UNCHANGED <<dbVars, now, drive, svc, imp, pass, report, ops>>

NextSlug == SlugAssign

SpecSlug == InitSlug /\ [][NextSlug]_vars

\* the slugs in use when the i-th call is made
ExistingAt(i) == fn.existing0 \cup {fn.slugs[j] : j \in 1..(i - 1)}

\* the least k >= 1 such that baseSlug-k is not in E
LeastFree(baseSlug, E) ==
  CHOOSE k \in 1..(Cardinality(E) + 1) :
    /\ SlugCandidate(baseSlug, k) \notin E
    /\ \A j \in 1..(k - 1) : SlugCandidate(baseSlug, j) \in E

\* C2: every call returns the base slug when it is unused and otherwise
\* base-k for the least k >= 1 such that base-k is unused; two calls for the
\* same base with base and base-1 unused return base and then base-1
C2_LeastFreeSuffix ==
  fn.pc = "slug" =>
    /\ \A i \in 1..Len(fn.slugs) :
         fn.slugs[i] = IF fn.baseSlug \notin ExistingAt(i) THEN fn.baseSlug
                       ELSE SlugCandidate(fn.baseSlug, LeastFree(fn.baseSlug, ExistingAt(i)))
    /\ (Len(fn.slugs) >= 2 /\ fn.baseSlug \notin fn.existing0
          /\ SlugCandidate(fn.baseSlug, 1) \notin fn.existing0) =>
         (fn.slugs[1] = fn.baseSlug /\ fn.slugs[2] = SlugCandidate(fn.baseSlug, 1))

\* base and base-1 were in use and base-2 was not: the two calls returned
\* base-2 and base-3
C2_Witness ==
  /\ fn.pc = "slug" /\ Len(fn.slugs) = 2
  /\ fn.existing0 = {fn.baseSlug, SlugCandidate(fn.baseSlug, 1)}
  /\ fn.slugs = <<SlugCandidate(fn.baseSlug, 2), SlugCandidate(fn.baseSlug, 3)>>

(***************************************************************************)
(* utils/csvExporter.js.  A CSV file is its header line, a sequence of     *)
(* header names none of which needs quoting, and its data lines, each a    *)
(* text; a quoted line feed stays inside its line.                         *)
(***************************************************************************)
ExportHeaders ==
  <<"ID", "Name", "Chinese Name", "Part", "Lean", "Price Min", "Price Max", "Price Mean",
    "Price Display", "Texture & Notes", "image reference", "Rec. Cooking Methods",
    "Recommended Dishes", "Google Drive Image ID", "Google Drive Image URL", "Slug">>

\* str.replace(/"/g, '""')
RECURSIVE DoubleQuotes(_)
DoubleQuotes(str) ==
  IF str = <<>> THEN <<>>
  ELSE (IF Head(str) = "\"" THEN <<"\"", "\"">> ELSE <<Head(str)>>) \o DoubleQuotes(Tail(str))

escapeCSV(value) ==
  IF value = NULL \/ value = UNDEF THEN EMPTY
  ELSE IF \E i \in 1..Len(value) : value[i] \in {",", "\"", "\n"}
    THEN <<"\"">> \o DoubleQuotes(value) \o <<"\"">>
  ELSE value

\* String(n) of a non-negative number held in half units
NumberToString(n) == NatStr(n \div 2) \o (IF n % 2 = 1 THEN <<".", "5">> ELSE <<>>)

RECURSIVE Join(_, _)
Join(parts, sep) ==
  IF parts = <<>> THEN <<>>
  ELSE IF Len(parts) = 1 THEN parts[1]
  ELSE parts[1] \o sep \o Join(Tail(parts), sep)

\* the order of ORDER BY name: texts compared character by character
AsciiOrder ==
  <<"\n", " ", "!", "\"", "$", "+", ",", "-", ".">> \o Digits
  \o <<"A", "B", "C", "N", "O", "T", "Y", "_">>
  \o <<"a", "b", "c", "e", "f", "g", "i", "j", "n", "o", "p", "r", "s", "t", "u", "w", "y", "~">>

RECURSIVE TextLess(_, _)
TextLess(a, b) ==
  IF b = <<>> THEN FALSE
  ELSE IF a = <<>> THEN TRUE
  ELSE IF Head(a) = Head(b) THEN TextLess(Tail(a), Tail(b))
  ELSE (CHOOSE i \in 1..Len(AsciiOrder) : AsciiOrder[i] = Head(a))
         < (CHOOSE i \in 1..Len(AsciiOrder) : AsciiOrder[i] = Head(b))

\* MeatCut.getCookingMethods, MeatCut.getRecommendedDishes: the names of the
\* tags of a cut, ORDER BY name
TagNames(tags, edges, cutId) ==
  LET S == {tags[e[2]] : e \in {x \in edges : x[1] = cutId}}
  IN CHOOSE q \in [1..Cardinality(S) -> S] :
       \A i, j \in 1..Cardinality(S) : i < j => TextLess(q[i], q[j])

\* one data line of the export
ExportLine(mc, cookingMethods, recommendedDishes) ==
  LET cells == <<NatStr(mc.id), mc.name, Or(mc.chinese_name, EMPTY), Or(mc.part, EMPTY),
                 IF mc.lean = 1 THEN <<"Y", "e", "s">> ELSE <<"N", "o">>,
                 NumberToString(mc.price_min), NumberToString(mc.price_max),
                 NumberToString(mc.price_mean), mc.price_display,
                 Or(mc.texture_notes, EMPTY), Or(mc.image_reference, EMPTY),
                 Join(cookingMethods, <<",", " ">>), Join(recommendedDishes, <<",", " ">>),
                 Or(mc.google_drive_image_id, EMPTY), Or(mc.google_drive_image_url, EMPTY),
                 Or(mc.slug, EMPTY)>>
  IN Join([i \in 1..Len(cells) |-> escapeCSV(cells[i])], <<",">>)

\* MeatCut.findAll: ORDER BY id
findAll(cuts) ==
  CHOOSE q \in [1..Cardinality(cuts) -> cuts] :
    \A i, j \in 1..Cardinality(cuts) : i < j => q[i].id < q[j].id

exportMeatCutsToCSV(cuts, cmTags, cmEdges, rdTags, rdEdges) ==
  [header |-> ExportHeaders,
   lines |-> [i \in 1..Cardinality(cuts) |->
                ExportLine(findAll(cuts)[i], TagNames(cmTags, cmEdges, findAll(cuts)[i].id),
                           TagNames(rdTags, rdEdges, findAll(cuts)[i].id))]]

\* csv(): the cells of one line; a comma inside quotes does not end a cell,
\* a doubled quote inside quotes is one quote
RECURSIVE ParseCells(_, _, _)
ParseCells(line, cur, quoted) ==
  IF line = <<>> THEN <<cur>>
  ELSE IF quoted /\ Len(line) >= 2 /\ line[1] = "\"" /\ line[2] = "\""
    THEN ParseCells(Tail(Tail(line)), Append(cur, "\""), TRUE)
  ELSE IF Head(line) = "\"" THEN ParseCells(Tail(line), cur, ~quoted)
  ELSE IF Head(line) = "," /\ ~quoted THEN <<cur>> \o ParseCells(Tail(line), <<>>, FALSE)
  ELSE ParseCells(Tail(line), Append(cur, Head(line)), quoted)

\* csv(): one row object per data line, keyed by the header line
ParseCsv(file) ==
  [i \in 1..Len(file.lines) |->
     [h \in {file.header[k] : k \in 1..Len(file.header)} |->
        ParseCells(file.lines[i], <<>>, FALSE)[CHOOSE k \in 1..Len(file.header) : file.header[k] = h]]]

(***************************************************************************)
(* The round-trip specification: a catalog is built by POST /meat-cuts,    *)
(* exported, and the export is imported into a store that init.sql has     *)
(* just created.  fn keeps the export and the catalog it was taken from.   *)
(***************************************************************************)
ExportBodies ==
  CreateBodies \cup
  { [BaseBody EXCEPT !.name = <<"b", ",", "c">>, !.lean = <<"n", "o">>,
                     !.priceDisplay = <<"$", "6", "~", "$", "9">>,
                     !.textureNotes = <<"a", " ", "\"", "b", "\"">>,
                     !.cookingMethods = <<<<"p">>, <<"g">>>>,
                     !.recommendedDishes = <<<<"s">>>>] }

CatalogCreate == fn.pc = "idle" /\ \E b \in ExportBodies : AdminCreate(b)

Export ==
  /\ fn.pc = "idle"
  /\ imp.pc # "rows"
  /\ fn' = [pc |-> "exported",
            csv |-> exportMeatCutsToCSV(meat_cuts, cooking_methods, mccm, recommended_dishes, mcrd),
            cuts |-> meat_cuts,
            tags |-> [id \in Ids(meat_cuts) |->
                        [cm |-> TagNames(cooking_methods, mccm, id),
                         rd |-> TagNames(recommended_dishes, mcrd, id)]]]
  /\ UNCHANGED <<dbVars, now, drive, svc, imp, pass, report, ops>>

\* the store init.sql creates
FreshStore ==
  /\ fn.pc = "exported"
  /\ meat_cuts' = {}
  /\ meat_cuts_seq' = 0
  /\ cooking_methods' = <<>>
  /\ recommended_dishes' = <<>>
  /\ mccm' = {}
  /\ mcrd' = {}
  /\ metadata' = [k \in {"last_meat_cuts_update"} |-> 0]
  /\ fn' = [fn EXCEPT !.pc = "empty"]
  /\ UNCHANGED <<now, drive, svc, imp, pass, report, ops>>

\* importMeatCutsFromCSV on the exported file
ImportExported ==
  /\ fn.pc = "empty"
  /\ imp' = [NoImport EXCEPT !.pc = "rows", !.rows = ParseCsv(fn.csv)]
  /\ fn' = [fn EXCEPT !.pc = "imported"]
  /\ UNCHANGED <<dbVars, now, drive, svc, pass, report, ops>>

NextRoundTrip ==
  CatalogCreate \/ Export \/ FreshStore \/ ImportExported \/ ImportRow \/ ImportFinish

SpecRoundTrip == Init /\ [][NextRoundTrip]_vars

\* C3: when the import of an export into an empty store has ended, it has
\* inserted as many rows as the exported catalog held, with no row error,
\* and every exported row has an imported row with the same names, part,
\* lean flag, prices, price display, notes, asset-reference key, remote id
\* and URL, slug and tag lists
C3_RoundTrip ==
  (fn.pc = "imported" /\ imp.pc = "done") =>
    /\ imp.imported = Cardinality(fn.cuts)
    /\ imp.errors = <<>>
    /\ Cardinality(meat_cuts) = Cardinality(fn.cuts)
    /\ \A x \in fn.cuts : \E r \in meat_cuts :
         /\ [r EXCEPT !.id = x.id, !.updated_at = x.updated_at] = x
         /\ TagNames(cooking_methods, mccm, r.id) = fn.tags[x.id].cm
         /\ TagNames(recommended_dishes, mcrd, r.id) = fn.tags[x.id].rd

(***************************************************************************)
(* scripts/fillGoogleDriveImageIds.js: the matching pass over the rows of  *)
(* a catalog CSV and the listing of the image folder.                      *)
(***************************************************************************)
ImageExtensions ==
  {<<".", "j", "p", "g">>, <<".", "j", "p", "e", "g">>, <<".", "p", "n", "g">>,
   <<".", "g", "i", "f">>, <<".", "w", "e", "b", "p">>}

EndsWith(s, e) == Len(s) >= Len(e) /\ SubSeq(s, Len(s) - Len(e) + 1, Len(s)) = e

normalizeName(name) ==
  IF ~Truthy(name) THEN EMPTY
  ELSE LET s == RemoveAll(toLowerCase(name), SpaceChars)
       IN trim(IF \E e \in ImageExtensions : EndsWith(s, e)
                 THEN SubSeq(s, 1, Len(s) - Len(CHOOSE e \in ImageExtensions : EndsWith(s, e)))
                 ELSE s)

\* the five strategies on the normalized names
MatchNormalized(normalizedImageName, imageRef, meatCutName) ==
  \/ Truthy(imageRef) /\ normalizedImageName = imageRef
  \/ Truthy(imageRef) /\ Includes(normalizedImageName, imageRef)
  \/ Truthy(imageRef) /\ Includes(imageRef, normalizedImageName)
  \/ Truthy(meatCutName) /\ Includes(normalizedImageName, meatCutName)
  \/ Truthy(meatCutName) /\ Includes(meatCutName, normalizedImageName)

matchImageToMeatCut(imageName, meatCut) ==
  \E n \in {normalizeName(imageName)} :
  \E r \in {normalizeName(FirstOf(meatCut, ImportRefHeaders, EMPTY))} :
  \E m \in {normalizeName(FirstOf(meatCut, <<"Name", "name">>, EMPTY))} :
    MatchNormalized(n, r, m)

\* the imageMap: in listing order, the first image of every normalized name
RECURSIVE ImageMapOf(_, _)
ImageMapOf(images, acc) ==
  IF images = <<>> THEN acc
  ELSE IF \E k \in 1..Len(acc) : normalizeName(acc[k].name) = normalizeName(Head(images).name)
    THEN ImageMapOf(Tail(images), acc)
  ELSE ImageMapOf(Tail(images), Append(acc, Head(images)))

\* the skip test of the matching loop
AlreadyHasId(row) ==
  Truthy(Get(row, "google_drive_image_id")) \/ Truthy(Get(row, "googleDriveImageId"))

FirstMatch_Last(imageMap, row) ==
  IF \E k \in 1..Len(imageMap) : matchImageToMeatCut(imageMap[k].name, row)
    THEN CHOOSE k \in 1..Len(imageMap) :
           /\ matchImageToMeatCut(imageMap[k].name, row)
           /\ \A j \in (k + 1)..Len(imageMap) : ~matchImageToMeatCut(imageMap[j].name, row)
    ELSE 0

\* the index in the imageMap of the first image that matches the row, 0
\* when none does
FirstMatch(imageMap, row) ==
  IF \E k \in 1..Len(imageMap) : matchImageToMeatCut(imageMap[k].name, row)
    THEN CHOOSE k \in 1..Len(imageMap) :
           /\ matchImageToMeatCut(imageMap[k].name, row)
           /\ \A j \in 1..(k - 1) : ~matchImageToMeatCut(imageMap[j].name, row)
    ELSE 0

\* the row after the four assignments of a match
MatchedRow(row, image) ==
  ("google_drive_image_id" :> image.id) @@ ("googleDriveImageId" :> image.id)
  @@ ("google_drive_image_url" :> getImageUrl(image.id))
  @@ ("googleDriveImageUrl" :> getImageUrl(image.id)) @@ row

\* the headers of the catalog CSVs, in the order Object.keys lists them
CsvHeaderOrder ==
  <<"Name", "name", "image reference", "imageReference", "Google Drive Image ID",
    "Google Drive Image URL", "google_drive_image_id", "googleDriveImageId",
    "google_drive_image_url", "googleDriveImageUrl">>

\* arrayToCSV: the headers of the first row, every cell quoted
arrayToCSV(rows) ==
  IF rows = <<>> THEN [header |-> <<>>, lines |-> <<>>]
  ELSE LET headers == SelectSeq(CsvHeaderOrder, LAMBDA h : h \in DOMAIN rows[1])
       IN [header |-> headers,
           lines |-> [i \in 1..Len(rows) |->
                        Join([k \in 1..Len(headers) |->
                                <<"\"">> \o DoubleQuotes(Or(Get(rows[i], headers[k]), EMPTY)) \o <<"\"">>],
                             <<",">>)]]

(***************************************************************************)
(* The matching specification: one run of fillGoogleDriveImageIds on the   *)
(* rows parsed from the catalog CSV (pass.input) and the image folder of   *)
(* the remote store.                                                       *)
(***************************************************************************)
\* rows without identifier (the first and the fourth share their reference,
\* the fifth matches no image of the pool), a row with an identifier under the
\* exporter's header and no URL, a row with identifier and URL under the
\* snake-case headers
MatchRowPool ==
  { ("Name" :> <<"a">>) @@ ("image reference" :> <<"a">>),
    ("Name" :> <<"b">>) @@ ("image reference" :> <<"b">>)
      @@ ("Google Drive Image ID" :> DriveId(9)) @@ ("Google Drive Image URL" :> EMPTY),
    ("name" :> <<"a", " ", "1">>) @@ ("imageReference" :> <<"c">>)
      @@ ("google_drive_image_id" :> DriveId(8))
      @@ ("google_drive_image_url" :> getImageUrl(DriveId(8))),
    ("Name" :> <<"c">>) @@ ("image reference" :> <<"a">>),
    ("Name" :> <<"g">>) @@ ("image reference" :> <<"g">>) }

ImagePool ==
  { [id |-> DriveId(1), name |-> <<"a", ".", "j", "p", "g">>, mimeType |-> "image/jpeg"],
    [id |-> DriveId(2), name |-> <<"A", ".", "p", "n", "g">>, mimeType |-> "image/png"],
    [id |-> DriveId(3), name |-> <<"b", ".", "j", "p", "g">>, mimeType |-> "image/jpeg"],
    [id |-> DriveId(4), name |-> <<"c", ".", "t", "s">>, mimeType |-> "text/plain"],
    [id |-> DriveId(5), name |-> <<"b", " ", "a", ".", "p", "n", "g">>, mimeType |-> "image/png"] }

InitMatch ==
  /\ meat_cuts = {}
  /\ meat_cuts_seq = 0
  /\ cooking_methods = <<>>
  /\ recommended_dishes = <<>>
  /\ mccm = {}
  /\ mcrd = {}
  /\ metadata = [k \in {"last_meat_cuts_update"} |-> 0]
  /\ now = 1
  /\ \E F \in SUBSET ImagePool :
       /\ Cardinality(F) <= MaxImages
       /\ drive = [files |-> F, folders |-> {"Images"}, seq |-> 4, csv |-> 1]
  /\ svc = [initialized |-> FALSE, cfg |-> "id"]
  /\ imp = NoImport
  /\ \E rows \in SeqsUpTo(MatchRowPool, MaxCsvRows) :
       pass = [pc |-> "start", input |-> rows, rows |-> rows, listing |-> <<>>,
               imageMap |-> <<>>, i |-> 1,
               matchedCount |-> 0, alreadyHasIdCount |-> 0, unmatchedCount |-> 0,
               out |-> arrayToCSV(<<>>)]
  /\ report = NoReport
  /\ fn = NoFn
  /\ ops = 0

\* steps 1 to 5: initialize, the rows of the CSV, listFiles in the order the
\* store answers, the images among the files, the imageMap
MatchBegin ==
  /\ pass.pc = "start"
  /\ ~InitializeThrows(drive, svc)
  /\ \E listing \in {q \in [1..Cardinality(drive.files) -> drive.files] :
                       \A i, j \in 1..Cardinality(drive.files) : i # j => q[i] # q[j]} :
       pass' = [pass EXCEPT !.pc = "rows", !.listing = listing,
                            !.imageMap = ImageMapOf(SelectSeq(listing, IsImage), <<>>)]
  /\ drive' = DriveAfterInitialize(drive, svc)
  /\ svc' = SvcAfterInitialize(drive, svc)
  /\ UNCHANGED <<dbVars, now, imp, report, fn, ops>>

\* step 6: one iteration of the matching loop
MatchRow ==
  /\ pass.pc = "rows"
  /\ pass.i <= Len(pass.rows)
  /\ \E row \in {pass.rows[pass.i]} : \E k \in {FirstMatch(pass.imageMap, row)} :
       pass' = IF AlreadyHasId(row)
                 THEN [pass EXCEPT !.i = @ + 1, !.alreadyHasIdCount = @ + 1]
               ELSE IF k > 0
                 THEN [pass EXCEPT !.rows[pass.i] = MatchedRow(row, pass.imageMap[k]),
                                   !.i = @ + 1, !.matchedCount = @ + 1]
               ELSE [pass EXCEPT !.i = @ + 1, !.unmatchedCount = @ + 1]
  /\ UNCHANGED <<dbVars, now, drive, svc, imp, report, fn, ops>>

\* steps 7 and 8: the updated CSV that is uploaded
MatchFinish ==
  /\ pass.pc = "rows"
  /\ pass.i > Len(pass.rows)
  /\ pass' = [pass EXCEPT !.pc = "done", !.out = arrayToCSV(pass.rows)]
  /\ UNCHANGED <<dbVars, now, drive, svc, imp, report, fn, ops>>

NextMatch == MatchBegin \/ MatchRow \/ MatchFinish

SpecMatch == InitMatch /\ [][NextMatch]_vars

\* C7: after the pass, a row that carried a remote identifier under one of
\* the spellings the importer reads has the identifier and the URL the
\* importer read before the pass, and none of the spellings of the
\* identifier holds another identifier
C7_KeepsExistingId ==
  pass.pc = "done" =>
    \A i \in 1..Len(pass.input) :
      Truthy(FirstOf(pass.input[i], ImportIdHeaders, NULL)) =>
        /\ FirstOf(pass.rows[i], ImportIdHeaders, NULL) = FirstOf(pass.input[i], ImportIdHeaders, NULL)
        /\ FirstOf(pass.rows[i], ImportUrlHeaders, NULL) = FirstOf(pass.input[i], ImportUrlHeaders, NULL)
        /\ \A k \in 1..Len(ImportIdHeaders) :
             Truthy(Get(pass.rows[i], ImportIdHeaders[k])) =>
               Get(pass.rows[i], ImportIdHeaders[k]) = FirstOf(pass.input[i], ImportIdHeaders, NULL)

\* C8: after the pass, the identifiers the pass wrote into two different
\* rows are different
C8_NoSharedAsset ==
  pass.pc = "done" =>
    \A i, j \in 1..Len(pass.rows) :
      (i # j /\ pass.rows[i] # pass.input[i] /\ pass.rows[j] # pass.input[j]) =>
        Get(pass.rows[i], "google_drive_image_id") # Get(pass.rows[j], "google_drive_image_id")

(***************************************************************************)
(* routes/admin.js: GET /sync/status.  report is the last response; n      *)
(* counts the calls.  An absent missingImages is the empty sequence: the   *)
(* handler never sends an empty array.                                     *)
(***************************************************************************)
\* the ids of the images in the answer of listFiles
DriveImageIds(d) == {f.id : f \in {x \in d.files : IsImage(x)}}

\* the loop over MeatCut.findAll()
MissingImages(cuts, driveImageIds) ==
  LET missing == SelectSeq(findAll(cuts),
                           LAMBDA mc : Truthy(mc.google_drive_image_id)
                                       /\ mc.google_drive_image_id \notin driveImageIds)
  IN [i \in 1..Len(missing) |->
        [id |-> missing[i].id, name |-> missing[i].name,
         driveImageId |-> missing[i].google_drive_image_id]]

ImagesSynced_CountsOnly(imagesCount, imagesWithDriveId, missingImages) ==
  imagesCount = imagesWithDriveId
ImagesSynced(imagesCount, imagesWithDriveId, missingImages) ==
  imagesCount = imagesWithDriveId /\ Len(missingImages) = 0

\* googleDriveService.listCSVFiles: the files of the CSV folder
listCSVFiles(d) == d.csv

\* the body of the response; listed is FALSE when listFiles threw
StatusReport(cuts, md, d, s, listed, missingImages, n) ==
  [n |-> n,
   meatCutsCount |-> Cardinality(cuts),
   imagesWithDriveId |-> Cardinality({r \in cuts : r.google_drive_image_id # NULL}),
   lastMeatCutsUpdate |-> md["last_meat_cuts_update"],
   lastCSVSync |-> IF "last_csv_sync" \in DOMAIN md THEN md["last_csv_sync"] ELSE 0,
   imagesCount |-> IF listed THEN Cardinality(DriveImageIds(d)) ELSE 0,
   csvCount |-> IF listed THEN listCSVFiles(d) ELSE 0,
   imagesFolderId |-> IF s.initialized THEN <<"I", "m", "a", "g", "e", "s">> ELSE NULL,
   imagesSynced |-> ImagesSynced(IF listed THEN Cardinality(DriveImageIds(d)) ELSE 0,
                                 Cardinality({r \in cuts : r.google_drive_image_id # NULL}),
                                 missingImages),
   csvSynced |-> listed /\ listCSVFiles(d) > 0,
   missingImages |-> missingImages,
   warnings |-> IF Len(missingImages) > 0 THEN <<NatStr(Len(missingImages))>> ELSE <<>>]

GetSyncStatus ==
  /\ imp.pc # "rows"
  /\ report.n < MaxOps
  /\ drive' = DriveAfterInitialize(drive, svc)
  /\ svc' = SvcAfterInitialize(drive, svc)
  /\ \E listed \in {~InitializeThrows(drive, svc)} :
     \E missingImages \in {IF listed THEN MissingImages(meat_cuts, DriveImageIds(drive)) ELSE <<>>} :
       report' = StatusReport(meat_cuts, metadata, drive', svc', listed, missingImages, report.n + 1)
  /\ UNCHANGED <<dbVars, now, imp, pass, fn, ops>>

(***************************************************************************)
(* The sync specification: the catalog is built and pruned by the admin    *)
(* routes, images disappear from the remote store out of band, and the     *)
(* sync status is asked for at any time.                                   *)
(***************************************************************************)
SyncBodies ==
  { BaseBody,
    [BaseBody EXCEPT !.name = <<"A">>, !.file = TRUE],
    [BaseBody EXCEPT !.name = <<"b">>, !.googleDriveImageId = DriveId(9)] }

InitSync ==
  /\ meat_cuts = {}
  /\ meat_cuts_seq = 0
  /\ cooking_methods = <<>>
  /\ recommended_dishes = <<>>
  /\ mccm = {}
  /\ mcrd = {}
  /\ metadata = [k \in {"last_meat_cuts_update"} |-> 0]
  /\ now = 1
  /\ \E folders \in {{"Images"}, {}}, csv \in {0, 1}, seq \in {0, 1} :
       drive = [files |-> IF "Images" \in folders /\ seq = 1
                            THEN {UploadedFile(EmptyDrive, <<"c", ".", "j", "p", "g">>)}
                            ELSE {},
                folders |-> folders, seq |-> seq, csv |-> csv]
  /\ \E cfg \in {"id", "root"} : svc = [initialized |-> FALSE, cfg |-> cfg]
  /\ imp = NoImport
  /\ pass = NoPass
  /\ report = NoReport
  /\ fn = NoFn
  /\ ops = 0

SyncCreate == \E b \in SyncBodies : AdminCreate(b)

\* an image is removed from the image folder by another user of the store
RemoteRemove ==
  /\ \E f \in drive.files : drive' = DriveAfterDelete(drive, f.id)
  /\ UNCHANGED <<dbVars, now, svc, imp, pass, report, fn, ops>>

NextSync == SyncCreate \/ Delete \/ RemoteRemove \/ GetSyncStatus

SpecSync == InitSync /\ [][NextSync]_vars

\* the rows whose stored remote identifier is not the id of an image of the
\* image folder
Dangling(cuts, d) ==
  {r \in cuts : /\ Truthy(r.google_drive_image_id)
                /\ ~\E f \in d.files : IsImage(f) /\ f.id = r.google_drive_image_id}

Listed(r, missingImages) ==
  \E i \in 1..Len(missingImages) :
    missingImages[i].id = r.id /\ missingImages[i].driveImageId = r.google_drive_image_id

C10_StatusOnlyReads ==
  [][report'.n # report.n => (dbVars' = dbVars /\ drive' = drive)]_vars

(***************************************************************************)
(* Properties of the catalog rows under the catalog specification.         *)
(***************************************************************************)
\* C11: every catalog row has 0 <= price_min <= price_max
C11_PriceOrdered ==
  \A r \in meat_cuts : 0 <= r.price_min /\ r.price_min <= r.price_max

\* C12: every catalog row has its remote-asset id and its remote-asset URL
\* either both null or both non-null
C12_IdAndUrlTogether ==
  \A r \in meat_cuts :
    (r.google_drive_image_id = NULL) <=> (r.google_drive_image_url = NULL)

(***************************************************************************)
(* Search: GET /meat-cuts/search and SearchService.search.  A query is the *)
(* record of the query-string parameters (texts, UNDEF when absent); the   *)
(* filters hold q and part as texts, the prices and lean as numbers with   *)
(* NoNum for undefined.                                                    *)
(***************************************************************************)
SearchFilters(query) ==
  [q |-> Or(query.q, EMPTY),
   priceMin |-> IF Truthy(query.priceMin) THEN parseFloat(query.priceMin) ELSE NoNum,
   priceMax |-> IF Truthy(query.priceMax) THEN parseFloat(query.priceMax) ELSE NoNum,
   part |-> Or(query.part, UNDEF),
   lean |-> IF query.lean = UNDEF THEN NoNum
            ELSE IF query.lean \in {<<"t", "r", "u", "e">>, <<"1">>} THEN 1 ELSE 0,
   cookingMethod |-> Or(query.cookingMethod, UNDEF)]

\* the LIKE operator of SQLite: % stands for any run of characters, _ for
\* any one character, letters compare without case
RECURSIVE Like(_, _)
Like(str, pattern) ==
  IF pattern = <<>> THEN str = <<>>
  ELSE IF Head(pattern) = "%"
    THEN Like(str, Tail(pattern)) \/ (str # <<>> /\ Like(Tail(str), pattern))
  ELSE /\ str # <<>>
       /\ Head(pattern) = "_" \/ LowerChar(Head(pattern)) = LowerChar(Head(str))
       /\ Like(Tail(str), Tail(pattern))

\* (mc.name LIKE ? OR mc.chinese_name LIKE ? OR mc.part LIKE ?)
TextMatches(mc, q) ==
  \E searchTerm \in {<<"%">> \o trim(q) \o <<"%">>} :
    Like(mc.name, searchTerm) \/ Like(mc.chinese_name, searchTerm) \/ Like(mc.part, searchTerm)

\* mc.price_max >= ? AND mc.price_min <= ?, each when the bound is given; a
\* NaN bound is bound as NULL and the comparison holds for no row
PriceMatches_Contained(mc, priceMin, priceMax) ==
  /\ priceMin # NoNum => (priceMin # NaN /\ mc.price_min >= priceMin)
  /\ priceMax # NoNum => (priceMax # NaN /\ mc.price_max <= priceMax)

PriceMatches(mc, priceMin, priceMax) ==
  /\ priceMin # NoNum => (priceMin # NaN /\ mc.price_max >= priceMin)
  /\ priceMax # NoNum => (priceMax # NaN /\ mc.price_min <= priceMax)

\* the WHERE clause, with the join on the cooking methods
SearchWhere(mc, filters, cmTags, cmEdges) ==
  /\ (Truthy(filters.q) /\ trim(filters.q) # EMPTY) => TextMatches(mc, filters.q)
  /\ PriceMatches(mc, filters.priceMin, filters.priceMax)
  /\ (Truthy(filters.part) /\ trim(filters.part) # EMPTY) => mc.part = trim(filters.part)
  /\ filters.lean # NoNum => mc.lean = filters.lean
  /\ (Truthy(filters.cookingMethod) /\ trim(filters.cookingMethod) # EMPTY)
       => \E e \in cmEdges : e[1] = mc.id /\ cmTags[e[2]] = trim(filters.cookingMethod)

\* SELECT MIN(price_min), MAX(price_max); NULL on no rows, then || 0
PriceRangeOf(rows) ==
  IF rows = {} THEN [min |-> 0, max |-> 0]
  ELSE [min |-> NumOr(CHOOSE m \in {r.price_min : r \in rows} :
                        \A r \in rows : m <= r.price_min, 0),
        max |-> NumOr(CHOOSE m \in {r.price_max : r \in rows} :
                        \A r \in rows : m >= r.price_max, 0)]

\* the rows in ORDER BY mc.name, each with its tag names
SearchResults(matched, cmTags, cmEdges, rdTags, rdEdges) ==
  LET n == Cardinality(matched)
      ordered == CHOOSE o \in [1..n -> matched] :
                   /\ \A i, j \in 1..n : i # j => o[i] # o[j]
                   /\ \A i, j \in 1..n : i < j => ~TextLess(o[j].name, o[i].name)
  IN [i \in 1..n |->
        [mc |-> ordered[i],
         cookingMethods |-> TagNames(cmTags, cmEdges, ordered[i].id),
         recommendedDishes |-> TagNames(rdTags, rdEdges, ordered[i].id),
         imageUrl |-> Or(ordered[i].google_drive_image_url, NULL)]]

search_RangeOfMatches(filters, cuts, cmTags, cmEdges, rdTags, rdEdges) ==
  LET matched == {mc \in cuts : SearchWhere(mc, filters, cmTags, cmEdges)}
  IN [results |-> SearchResults(matched, cmTags, cmEdges, rdTags, rdEdges),
      total |-> Cardinality(matched),
      priceRange |-> PriceRangeOf(matched)]

search(filters, cuts, cmTags, cmEdges, rdTags, rdEdges) ==
  LET matched == {mc \in cuts : SearchWhere(mc, filters, cmTags, cmEdges)}
  IN [results |-> SearchResults(matched, cmTags, cmEdges, rdTags, rdEdges),
      total |-> Cardinality(matched),
      priceRange |-> PriceRangeOf(cuts)]

\* GET /meat-cuts/search: the response is kept in report with the filters it
\* answers
Search(query) ==
  /\ imp.pc # "rows"
  /\ report.n < MaxOps
  /\ \E filters \in {SearchFilters(query)} :
       \E response \in {search(filters, meat_cuts, cooking_methods, mccm,
                               recommended_dishes, mcrd)} :
         report' = [n |-> report.n + 1, filters |-> filters, response |-> response]
  /\ UNCHANGED <<dbVars, now, drive, svc, imp, pass, fn, ops>>

NoQuery ==
  [q |-> UNDEF, priceMin |-> UNDEF, priceMax |-> UNDEF, part |-> UNDEF,
   lean |-> UNDEF, cookingMethod |-> UNDEF]

SearchQueries ==
  { NoQuery,
    [NoQuery EXCEPT !.priceMin = <<"6">>, !.priceMax = <<"9">>],
    [NoQuery EXCEPT !.priceMin = <<"8">>],
    [NoQuery EXCEPT !.priceMax = <<"9">>],
    [NoQuery EXCEPT !.q = <<" ", "B", " ">>],
    [NoQuery EXCEPT !.q = <<"_">>],
    [NoQuery EXCEPT !.q = <<"a">>, !.priceMin = <<"8">>],
    [NoQuery EXCEPT !.part = <<"b">>, !.lean = <<"1">>],
    [NoQuery EXCEPT !.cookingMethod = <<"g">>] }

SearchBodies ==
  { [BaseBody EXCEPT !.priceMin = <<"5">>, !.priceMax = <<"7">>],
    [BaseBody EXCEPT !.name = <<"A", " ", "b">>, !.part = <<"c">>, !.lean = <<"n", "o">>,
                     !.priceMin = <<"1", "0">>, !.priceMax = <<"1", "2">>,
                     !.cookingMethods = NoTags],
    [BaseBody EXCEPT !.name = <<"c">>, !.chineseName = <<"b">>, !.part = <<"a">>] }

SearchCreate == \E b \in SearchBodies : AdminCreate(b)
SearchRequest == \E query \in SearchQueries : Search(query)
NextSearch == SearchCreate \/ SearchRequest
SpecSearch == Init /\ [][NextSearch]_vars

\* the rows of the last response
Returned == {report.response.results[i].mc : i \in 1..Len(report.response.results)}

\* C13: a row that is returned overlaps the requested price window, and when
\* the price bounds are the only filters every overlapping row is returned
C13_PriceOverlap ==
  [][\A query \in SearchQueries : Search(query) =>
       \A r \in meat_cuts :
         LET f == report'.filters
             overlaps == /\ f.priceMin # NoNum => r.price_max >= f.priceMin
                         /\ f.priceMax # NoNum => r.price_min <= f.priceMax
             returned == \E i \in 1..Len(report'.response.results) :
                            report'.response.results[i].mc = r
         IN /\ returned => overlaps
            /\ (query.q = UNDEF /\ query.part = UNDEF /\ query.lean = UNDEF
                  /\ query.cookingMethod = UNDEF) => (overlaps => returned)]_vars

\* a window of 6..9 returned the row priced 5..7 and left out the row priced
\* 10..12, which was in the catalog when the search ran
C13_Witness ==
  /\ report.n > 0
  /\ report.filters.priceMin = 12 /\ report.filters.priceMax = 18
  /\ report.response.priceRange.max = 24
  /\ \E r \in Returned : r.price_min = 10 /\ r.price_max = 14
  /\ \E r \in meat_cuts : r.price_min = 20 /\ r.price_max = 24 /\ r \notin Returned

\* C14: for a non-blank query, a row matches by text exactly when the
\* trimmed query occurs, without regard to case, as a literal substring of
\* its name, its Chinese name or its part
C14_LiteralSubstring ==
  [][\A query \in SearchQueries : Search(query) =>
       \A r \in meat_cuts :
         LET f == report'.filters
             needle == toLowerCase(trim(f.q))
             occurs == \/ Includes(toLowerCase(r.name), needle)
                       \/ Includes(toLowerCase(r.chinese_name), needle)
                       \/ Includes(toLowerCase(r.part), needle)
             returned == \E i \in 1..Len(report'.response.results) :
                            report'.response.results[i].mc = r
         IN (Truthy(query.q) /\ trim(query.q) # EMPTY)
              => /\ returned => occurs
                 /\ (query.priceMin = UNDEF /\ query.priceMax = UNDEF
                       /\ query.part = UNDEF /\ query.lean = UNDEF
                       /\ query.cookingMethod = UNDEF) => (occurs => returned)]_vars

\* C15: a search without filters returns every row with total the size of
\* the catalog, and under every filter combination priceRange is the least
\* price_min and the greatest price_max of the whole catalog
C15_AllRowsAndGlobalRange ==
  [][\A query \in SearchQueries : Search(query) =>
       LET res == report'.response
           rows == {res.results[i].mc : i \in 1..Len(res.results)}
       IN /\ query = NoQuery =>
               (rows = meat_cuts /\ res.total = Cardinality(meat_cuts)
                  /\ Len(res.results) = Cardinality(meat_cuts))
          /\ meat_cuts # {} =>
               /\ \E r \in meat_cuts : r.price_min = res.priceRange.min
               /\ \A r \in meat_cuts : res.priceRange.min <= r.price_min
               /\ \E r \in meat_cuts : r.price_max = res.priceRange.max
               /\ \A r \in meat_cuts : res.priceRange.max >= r.price_max]_vars

\* a filtered search returned one row of two, and its priceRange spans both
C15_Witness ==
  /\ report.n > 0
  /\ report.filters.priceMin = 16 /\ report.filters.q = EMPTY
  /\ report.response.total = 1
  /\ \E r \in Returned : r.price_min = 20 /\ r.price_max = 24
  /\ report.response.priceRange = [min |-> 10, max |-> 24]

(***************************************************************************)
(* Properties of the association tables under the catalog specification.   *)
(***************************************************************************)
EdgesOfOthers(edges, id) == {e \in edges : e[1] # id}

\* C16: a delete removes every edge of the deleted item and leaves the tag
\* rows and the edges of the other items as they were; every edge always
\* references an existing item and an existing tag
C16_CascadeAndIntegrity ==
  /\ [](/\ \A e \in mccm : e[1] \in {r.id : r \in meat_cuts} /\ e[2] \in 1..Len(cooking_methods)
        /\ \A e \in mcrd : e[1] \in {r.id : r \in meat_cuts} /\ e[2] \in 1..Len(recommended_dishes))
  /\ [][\A id \in 1..MaxCuts : AdminDelete(id) =>
          /\ \A e \in mccm' \cup mcrd' : e[1] # id
          /\ cooking_methods' = cooking_methods
          /\ recommended_dishes' = recommended_dishes
          /\ EdgesOfOthers(mccm', id) = EdgesOfOthers(mccm, id)
          /\ EdgesOfOthers(mcrd', id) = EdgesOfOthers(mcrd, id)]_vars

\* one of two items was deleted: the other keeps its edges and the tags stay
C16_Witness ==
  /\ meat_cuts_seq = 2 /\ Cardinality(meat_cuts) = 1
  /\ mccm # {} /\ cooking_methods # <<>>
  /\ \A e \in mccm : e[1] \in {r.id : r \in meat_cuts}

(***************************************************************************)
(* Concurrent requests.  A POST /meat-cuts with an image file runs up to   *)
(* `await googleDriveService.uploadImage` and is resumed when the upload   *)
(* settles; other handlers run in between.  The 'end' callback of the      *)
(* importer and a POST without a file run without yielding.  fn holds the  *)
(* requests waiting for their upload, each with its arrival number and the *)
(* table as it was on arrival, and the response sent last.                 *)
(***************************************************************************)
NoResponse == [req |-> 0, status |-> 0, slug |-> NULL, error |-> "none"]

PostBegin(b) ==
  /\ imp.pc # "rows"
  /\ ops < MaxOps
  /\ b.file
  /\ fn' = [fn EXCEPT !.pending = @ \cup {[req |-> ops + 1, b |-> b, arrival |-> meat_cuts]}]
  /\ ops' = ops + 1
  /\ UNCHANGED <<dbVars, now, drive, svc, imp, pass, report>>

\* the table the checkExists callback of MeatCut.create queries: the table
\* as it is when create runs, after the await
SlugTable_OnArrival(p, cuts) == p.arrival

SlugTable(p, cuts) == cuts

PostResponse(p, v, cuts) ==
  [req |-> p.req,
   status |-> IF InsertAccepted(v, cuts) THEN 201 ELSE 500,
   slug |-> v.slug,
   error |-> IF InsertAccepted(v, cuts) THEN "none"
             ELSE IF v.slug \in Slugs(cuts) THEN "slug" ELSE "other"]

PostResume(p) ==
  /\ imp.pc # "rows"
  /\ meat_cuts_seq < MaxCuts
  /\ drive.seq < MaxCuts /\ ~InitializeThrows(drive, svc)
  /\ \E data \in {PostWithImage(p.b, drive)} :
       \E v \in {InsertValues(data, SlugTable(p, meat_cuts))} :
         /\ drive' = DriveAfterUpload(DriveAfterInitialize(drive, svc),
                                      UploadName(data.imageReference, data.name))
         /\ svc' = SvcAfterInitialize(drive, svc)
         /\ fn' = [pending |-> fn.pending \ {p}, last |-> PostResponse(p, v, meat_cuts)]
         /\ IF InsertAccepted(v, meat_cuts)
              THEN \E row \in {NewRow(v, meat_cuts_seq + 1, now)} :
                   \E cm \in {AssociateAll(cooking_methods, mccm, row.id,
                                           RequestTags(p.b.cookingMethods))} :
                   \E rd \in {AssociateAll(recommended_dishes, mcrd, row.id,
                                           RequestTags(p.b.recommendedDishes))} :
                     /\ meat_cuts' = meat_cuts \cup {row}
                     /\ meat_cuts_seq' = row.id
                     /\ cooking_methods' = cm.tags
                     /\ mccm' = cm.edges
                     /\ recommended_dishes' = rd.tags
                     /\ mcrd' = rd.edges
                     /\ metadata' = TouchMetadata(metadata, now)
                     /\ now' = now + 1
              ELSE UNCHANGED <<dbVars, now>>
  /\ UNCHANGED <<imp, pass, report, ops>>

InitConc ==
  /\ meat_cuts = {}
  /\ meat_cuts_seq = 0
  /\ cooking_methods = <<>>
  /\ recommended_dishes = <<>>
  /\ mccm = {}
  /\ mcrd = {}
  /\ metadata = [k \in {"last_meat_cuts_update"} |-> 0]
  /\ now = 1
  /\ drive = EmptyDrive
  /\ svc = [initialized |-> FALSE, cfg |-> "id"]
  /\ imp = NoImport
  /\ pass = NoPass
  /\ report = NoReport
  /\ fn = [pending |-> {}, last |-> NoResponse]
  /\ ops = 0

ConcBodies ==
  { BaseBody, [BaseBody EXCEPT !.priceMin = <<"0">>],
    [BaseBody EXCEPT !.file = TRUE],
    [BaseBody EXCEPT !.name = <<"A">>, !.cookingMethods = NoTags, !.file = TRUE] }

ConcCreate == \E b \in ConcBodies : ~b.file /\ AdminCreate(b)
ConcBegin == \E b \in ConcBodies : PostBegin(b)
ConcResume == \E p \in fn.pending : PostResume(p)
NextConc == ConcCreate \/ ConcBegin \/ ConcResume \/ Import \/ ImportRow \/ ImportFinish
SpecConc == InitConc /\ [][NextConc]_vars

\* C17: no insert whose slug the collision-avoidance loop assigned fails on
\* the unique slug, whether the insert is made by a resumed POST, by a POST
\* that never waited or by a row of an import
C17_NoSlugCollision ==
  /\ [](fn.last.error # "slug")
  /\ [][\A b \in ConcBodies : AdminCreate(b) =>
          AssignSlug(PostWithImage(b, drive), meat_cuts) \notin Slugs(meat_cuts)]_vars
  /\ [][ImportRow =>
          AssignSlug(RowMeatCutData(imp.rows[imp.i]), meat_cuts) \notin Slugs(meat_cuts)]_vars

\* the request that arrived first was resumed after another insert had
\* taken its base slug, and was stored under the next free one
C17_Witness ==
  /\ fn.last.req = 1 /\ fn.last.status = 201
  /\ fn.last.slug = <<"a", "-", "1">>
  /\ \E r \in meat_cuts : r.slug = <<"a">>

\* C18: an admin update that changes the item, be it only its cooking-method
\* or recommended-dish edges, leaves the item with a later updated_at
C18_UpdateBumpsTimestamp ==
  [][\A id \in 1..MaxCuts, b \in UpdateBodies :
       (/\ AdminUpdate(id, b)
        /\ meat_cuts' # meat_cuts \/ mccm' # mccm \/ mcrd' # mcrd)
         => \A r \in meat_cuts, q \in meat_cuts' :
              (r.id = id /\ q.id = id) => q.updated_at > r.updated_at]_vars

(***************************************************************************)
(* The parsers of the importer applied to a text: parsePriceDisplay of     *)
(* utils/validators.js and the tag split of the importer.  fn holds the    *)
(* text and, once a parser ran, its result.                                *)
(***************************************************************************)
ParseChars == {"$", "6", "9", "-", "a", ",", " "}

InitParse ==
  /\ meat_cuts = {}
  /\ meat_cuts_seq = 0
  /\ cooking_methods = <<>>
  /\ recommended_dishes = <<>>
  /\ mccm = {}
  /\ mcrd = {}
  /\ metadata = [k \in {"last_meat_cuts_update"} |-> 0]
  /\ now = 1
  /\ drive = EmptyDrive
  /\ svc = [initialized |-> FALSE, cfg |-> "id"]
  /\ imp = NoImport
  /\ pass = NoPass
  /\ report = NoReport
  /\ fn \in {[pc |-> "text", text |-> t] : t \in SeqsUpTo(ParseChars, MaxText)}
  /\ ops = 0

ParsePrice ==
  /\ fn.pc = "text"
  /\ fn' = [pc |-> "prices", text |-> fn.text, prices |-> parsePriceDisplay(fn.text)]
  /\ UNCHANGED <<dbVars, now, drive, svc, imp, pass, report, ops>>

ParseTags ==
  /\ fn.pc = "text"
  /\ fn' = [pc |-> "tags", text |-> fn.text, tags |-> parseCookingMethods(fn.text),
            dishes |-> parseRecommendedDishes(fn.text)]
  /\ UNCHANGED <<dbVars, now, drive, svc, imp, pass, report, ops>>

NextParse == ParsePrice \/ ParseTags
SpecParse == InitParse /\ [][NextParse]_vars

\* the tokens parsePriceDisplay finds in a text
PriceTokens(text) ==
  NonEmptyParts(MapTrim(Split(trim(RemoveAll(text, {"$"})), PriceSeparators)))

\* C19: parsePriceDisplay returns a (min, max, mean) triple only when it
\* finds two tokens and both parse as numbers; otherwise it returns null
C19_NullUnlessTwoNumbers ==
  fn.pc = "prices" =>
    (fn.prices # NoPrices <=>
       (/\ Len(PriceTokens(fn.text)) >= 2
        /\ parseFloat(PriceTokens(fn.text)[1]) # NaN
        /\ parseFloat(PriceTokens(fn.text)[2]) # NaN))

\* C20: the tag split returns trimmed non-empty names, none of them twice
C20_SplitWithoutDuplicates ==
  fn.pc = "tags" =>
    /\ \A i \in 1..Len(fn.tags) : fn.tags[i] # <<>> /\ trim(fn.tags[i]) = fn.tags[i]
    /\ \A i, j \in 1..Len(fn.tags) : i # j => fn.tags[i] # fn.tags[j]
    /\ \A i, j \in 1..Len(fn.dishes) : i # j => fn.dishes[i] # fn.dishes[j]

\* C19 as the code has it: parsePriceDisplay returns null when it finds no
\* token or when the first token, or the second when there is one, does not
\* parse as a number; a single price gives the triple with min = max = mean
C19_NullUnlessNumbers ==
  fn.pc = "prices" =>
    LET tokens == PriceTokens(fn.text)
    IN /\ fn.prices # NoPrices <=>
            (/\ Len(tokens) >= 1
             /\ parseFloat(tokens[1]) # NaN
             /\ Len(tokens) >= 2 => parseFloat(tokens[2]) # NaN)
       /\ (fn.prices # NoPrices /\ Len(tokens) = 1) =>
            (fn.prices.min = parseFloat(tokens[1]) /\ fn.prices.max = fn.prices.min
               /\ fn.prices.mean = fn.prices.min)

\* the single price "$6" parsed to the triple (6, 6, 6)
C19_Witness ==
  /\ fn.pc = "prices"
  /\ fn.text = <<"$", "6">>
  /\ fn.prices = [min |-> 12, max |-> 12, mean |-> 12]

\* C21: no catalog row has an empty slug or a slug made of a numeric suffix
\* alone: a name whose base slug is empty is rejected by create and import
C21_NoEmptyBaseSlug ==
  \A r \in meat_cuts :
    /\ r.slug # <<>>
    /\ ~(Head(r.slug) = "-" /\ Len(r.slug) > 1
           /\ \A i \in 2..Len(r.slug) : r.slug[i] \in DigitChars)

(***************************************************************************)
(* GET /filters/options and SearchService.getFilterOptions.  The response  *)
(* is kept in report.                                                      *)
(***************************************************************************)
\* SELECT DISTINCT ... ORDER BY: the texts of a set in ascending order
OrderedTexts(S) ==
  CHOOSE o \in [1..Cardinality(S) -> S] :
    \A i, j \in 1..Cardinality(S) : i < j => TextLess(o[i], o[j])

getFilterOptions(cuts, cmTags) ==
  [parts |-> OrderedTexts({r.part : r \in {c \in cuts : c.part # NULL /\ c.part # EMPTY}}),
   cookingMethods |-> OrderedTexts({cmTags[i] : i \in 1..Len(cmTags)}),
   priceRange |-> PriceRangeOf(cuts)]

GetFilterOptions ==
  /\ imp.pc # "rows"
  /\ report.n < MaxOps
  /\ \E options \in {getFilterOptions(meat_cuts, cooking_methods)} :
       report' = [n |-> report.n + 1, options |-> options]
  /\ UNCHANGED <<dbVars, now, drive, svc, imp, pass, fn, ops>>

NextOptions == Create \/ Update \/ Delete \/ GetFilterOptions
SpecOptions == Init /\ [][NextOptions]_vars

\* C22: the options list exactly the distinct parts and the distinct names
\* of the cooking methods that some current item carries, each once, with
\* the price range search reports
C22_OptionsMatchCatalog ==
  [][GetFilterOptions =>
       LET o == report'.options
           carried == {cooking_methods[e[2]] : e \in mccm}
       IN /\ {o.cookingMethods[i] : i \in 1..Len(o.cookingMethods)} = carried
          /\ \A i, j \in 1..Len(o.cookingMethods) :
               i # j => o.cookingMethods[i] # o.cookingMethods[j]
          /\ {o.parts[i] : i \in 1..Len(o.parts)} = {r.part : r \in meat_cuts}
          /\ \A i, j \in 1..Len(o.parts) : i # j => o.parts[i] # o.parts[j]
          /\ o.priceRange = search(SearchFilters(NoQuery), meat_cuts, cooking_methods, mccm,
                                   recommended_dishes, mcrd).priceRange]_vars

(***************************************************************************)
(* Properties of the matching pass.                                        *)
(***************************************************************************)
\* C23: a processed row that had no identifier holds the id, with its URL,
\* of the first image of the listing that one of the five rules matches to
\* it, or is left as it was when no image matches; every processed row is
\* counted once
C23_FirstMatchingAsset ==
  pass.pc \in {"rows", "done"} =>
    LET images == SelectSeq(pass.listing, IsImage)
        hits(row) == {k \in 1..Len(images) : matchImageToMeatCut(images[k].name, row)}
        first(row) == CHOOSE k \in hits(row) : \A j \in hits(row) : k <= j
        processed == 1..(pass.i - 1)
    IN /\ \A i \in processed :
            ~Truthy(FirstOf(pass.input[i], ImportIdHeaders, NULL)) =>
              IF hits(pass.input[i]) # {}
                THEN /\ Get(pass.rows[i], "google_drive_image_id") = images[first(pass.input[i])].id
                     /\ Get(pass.rows[i], "googleDriveImageId") = images[first(pass.input[i])].id
                     /\ Get(pass.rows[i], "google_drive_image_url")
                          = getImageUrl(images[first(pass.input[i])].id)
                     /\ Get(pass.rows[i], "googleDriveImageUrl")
                          = getImageUrl(images[first(pass.input[i])].id)
                ELSE pass.rows[i] = pass.input[i]
       /\ pass.matchedCount = Cardinality({i \in processed : pass.rows[i] # pass.input[i]})
       /\ pass.unmatchedCount
            >= Cardinality({i \in processed :
                              /\ ~Truthy(FirstOf(pass.input[i], ImportIdHeaders, NULL))
                              /\ hits(pass.input[i]) = {}})
       /\ pass.matchedCount + pass.alreadyHasIdCount + pass.unmatchedCount = pass.i - 1

\* of two listed images that match the first row the one listed first was
\* assigned, and the row after it was counted as having an id
C23_Witness ==
  /\ pass.pc = "done"
  /\ Len(pass.listing) >= 2 /\ pass.listing[1].id = DriveId(5)
  /\ \E k \in 2..Len(pass.listing) : pass.listing[k].id = DriveId(1)
  /\ Len(pass.rows) = 2
  /\ Get(pass.rows[1], "google_drive_image_id") = DriveId(5)
  /\ pass.matchedCount = 1 /\ pass.alreadyHasIdCount = 1

(***************************************************************************)
(* Further properties of the search.                                       *)
(***************************************************************************)
\* C24: search returns exactly the rows that satisfy every supplied filter
\* (text as a literal substring without regard to case, price overlap, part
\* and lean exact, a cooking-method edge to a tag of that name), each once,
\* sorted by name, with total the number of returned rows
C24_ExactConjunction ==
  [][\A query \in SearchQueries : Search(query) =>
       LET f == report'.filters
           res == report'.response
           needle == toLowerCase(trim(f.q))
           satisfies(r) ==
             /\ trim(f.q) # EMPTY =>
                  \/ Includes(toLowerCase(r.name), needle)
                  \/ Includes(toLowerCase(r.chinese_name), needle)
                  \/ Includes(toLowerCase(r.part), needle)
             /\ f.priceMin # NoNum => r.price_max >= f.priceMin
             /\ f.priceMax # NoNum => r.price_min <= f.priceMax
             /\ query.part # UNDEF => r.part = query.part
             /\ query.lean # UNDEF => r.lean = f.lean
             /\ query.cookingMethod # UNDEF =>
                  \E e \in mccm : e[1] = r.id /\ cooking_methods[e[2]] = query.cookingMethod
       IN /\ {res.results[i].mc : i \in 1..Len(res.results)} = {r \in meat_cuts : satisfies(r)}
          /\ \A i, j \in 1..Len(res.results) : i # j => res.results[i].mc.id # res.results[j].mc.id
          /\ \A i, j \in 1..Len(res.results) :
               i < j => ~TextLess(res.results[j].mc.name, res.results[i].mc.name)
          /\ res.total = Len(res.results)]_vars

(***************************************************************************)
(* The tag models called on an existing item: findOrCreate followed by     *)
(* associateWithMeatCut, as the handlers and the importer call them.       *)
(* report holds what the two calls returned.                               *)
(***************************************************************************)
TagCall(id, name) ==
  /\ report.n < MaxOps
  /\ FindById(meat_cuts, id) # {}
  /\ \E tags \in {findOrCreate(cooking_methods, name)} :
       /\ cooking_methods' = tags
       /\ mccm' = associateWithMeatCut(mccm, id, TagId(tags, name))
       /\ report' = [n |-> report.n + 1,
                     method |-> [id |-> TagId(tags, name), name |-> tags[TagId(tags, name)]],
                     associated |-> TRUE]
  /\ UNCHANGED <<meat_cuts, meat_cuts_seq, recommended_dishes, mcrd, metadata, now, drive,
                 svc, imp, pass, fn, ops>>

DishCall(id, name) ==
  /\ report.n < MaxOps
  /\ FindById(meat_cuts, id) # {}
  /\ \E tags \in {findOrCreate(recommended_dishes, name)} :
       /\ recommended_dishes' = tags
       /\ mcrd' = associateWithMeatCut(mcrd, id, TagId(tags, name))
       /\ report' = [n |-> report.n + 1,
                     method |-> [id |-> TagId(tags, name), name |-> tags[TagId(tags, name)]],
                     associated |-> TRUE]
  /\ UNCHANGED <<meat_cuts, meat_cuts_seq, cooking_methods, mccm, metadata, now, drive,
                 svc, imp, pass, fn, ops>>

TagNamePool == {<<"g">>, <<"p">>, <<"G">>}

CallTag == \E id \in 1..MaxCuts, name \in TagNamePool : TagCall(id, name)
CallDish == \E id \in 1..MaxCuts, name \in TagNamePool : DishCall(id, name)
NextTags == Create \/ CallTag \/ CallDish
SpecTags == Init /\ [][NextTags]_vars

C26_ZeroPriceStored ==
  [][/\ \A b \in CreateBodies :
          (AdminCreate(b) /\ b.priceMin = <<"0">>) =>
            \E r \in meat_cuts' \ meat_cuts : r.price_min = 0
     /\ (ImportRow /\ RowMeatCutData(imp.rows[imp.i]).priceMin = 0
           /\ Truthy(RowMeatCutData(imp.rows[imp.i]).name)) =>
          \E r \in meat_cuts' \ meat_cuts : r.price_min = 0
     /\ \A id \in 1..MaxCuts, b \in UpdateBodies :
          (AdminUpdate(id, b) /\ b.priceMin = <<"0">>) =>
            \E r \in meat_cuts' : r.id = id /\ r.price_min = 0]_vars

(***************************************************************************)
(* Imports and deletes on a store whose image folder may hold an image.    *)
(***************************************************************************)
NextShare == Import \/ ImportRow \/ ImportFinish \/ Delete
SpecShare == InitSync /\ [][NextShare]_vars

\* C27: a delete leaves in the remote store every image that a remaining
\* row references and that was there before the delete
C27_DeleteKeepsOthersImages ==
  [][\A id \in 1..MaxCuts : AdminDelete(id) =>
       \A r \in meat_cuts' :
         (\E f \in drive.files : f.id = r.google_drive_image_id)
           => \E f \in drive'.files : f.id = r.google_drive_image_id]_vars

\* C28: when the rows of the input have the same columns, the CSV written
\* after the pass holds, in the line of every row the pass matched, the
\* identifier and the URL the pass assigned to the row
C28_AssignedIdsWritten ==
  pass.pc = "done" =>
    \A i \in 1..Len(pass.rows) :
      (/\ pass.rows[i] # pass.input[i]
       /\ \A j \in 1..Len(pass.input) : DOMAIN pass.input[j] = DOMAIN pass.input[1]) =>
        /\ \E h \in {"google_drive_image_id", "googleDriveImageId"} :
             \E k \in 1..Len(pass.out.header) : pass.out.header[k] = h
        /\ \E h \in {"google_drive_image_url", "googleDriveImageUrl"} :
             \E k \in 1..Len(pass.out.header) : pass.out.header[k] = h
        /\ Includes(pass.out.lines[i],
                    <<"\"">> \o Get(pass.rows[i], "google_drive_image_id") \o <<"\"">>)
        /\ Includes(pass.out.lines[i],
                    <<"\"">> \o Get(pass.rows[i], "google_drive_image_url") \o <<"\"">>)

\* ---------------------------------------------------------------------------
\* Sidebar (frontend): the search text is held locally and written to the
\* parent's filter state by a debounce timer; the slider and the sort selector
\* write to the parent's filter state at once.  The parent passes its state
\* setter as onFiltersChange, so every call replaces the whole filter object.
\* fn.filters is the parent's state, fn.searchQuery the Sidebar's local state,
\* fn.timer the pending timeout with the values its closure captured.
\* ---------------------------------------------------------------------------

InitialFilters == [searchQuery |-> <<>>, priceRange |-> <<0, 100>>, sortBy |-> "name"]

QueryPool == {<<"a">>, <<"b">>, <<"a", "b">>}

RangePool == {<<0, 50>>, <<10, 100>>}

SortOption == {"name", "cut", "cookingMethod", "price"}

\* setTimeout(..., DEBOUNCE_DELAY_MS) of the debounce effect: the callback
\* closes over the searchQuery and the filters of the render that ran the effect.
ArmTimer(searchQuery, filters) ==
  [pending |-> TRUE, searchQuery |-> searchQuery, filters |-> filters]

\* Mount: local state from the prop, both effects run once.
InitSidebar ==
  /\ meat_cuts = {}
  /\ meat_cuts_seq = 0
  /\ cooking_methods = <<>>
  /\ recommended_dishes = <<>>
  /\ mccm = {}
  /\ mcrd = {}
  /\ metadata = [k \in {"last_meat_cuts_update"} |-> 0]
  /\ now = 1
  /\ drive = EmptyDrive
  /\ svc = [initialized |-> FALSE, cfg |-> "id"]
  /\ imp = NoImport
  /\ pass = NoPass
  /\ report = NoReport
  /\ fn = [pc |-> "sidebar", filters |-> InitialFilters,
           searchQuery |-> InitialFilters.searchQuery,
           timer |-> ArmTimer(InitialFilters.searchQuery, InitialFilters)]
  /\ ops = 0

\* setSearchQuery(q) from the search box or a tag click.  A changed value
\* re-renders; the debounce effect (dependencies: searchQuery only) clears the
\* previous timeout and arms a new one.
setSearchQuery(q) ==
  /\ fn.pc = "sidebar"
  /\ ops < MaxOps
  /\ q # fn.searchQuery
  /\ fn' = [fn EXCEPT !.searchQuery = q, !.timer = ArmTimer(q, fn.filters)]
  /\ ops' = ops + 1
  /\ UNCHANGED <<dbVars, now, drive, svc, imp, pass, report>>

\* handlePriceRangeChange is rebuilt on every change of filters, so it spreads
\* the current filters.  The debounce effect does not run again.
handlePriceRangeChange(range) ==
  /\ fn.pc = "sidebar"
  /\ ops < MaxOps
  /\ fn' = [fn EXCEPT !.filters = [fn.filters EXCEPT !.priceRange = range]]
  /\ ops' = ops + 1
  /\ UNCHANGED <<dbVars, now, drive, svc, imp, pass, report>>

handleSortChange(sortBy) ==
  /\ fn.pc = "sidebar"
  /\ ops < MaxOps
  /\ fn' = [fn EXCEPT !.filters = [fn.filters EXCEPT !.sortBy = sortBy]]
  /\ ops' = ops + 1
  /\ UNCHANGED <<dbVars, now, drive, svc, imp, pass, report>>

\* The timeout callback, with the values of its closure; afterwards the effect
\* on filters.searchQuery copies the prop into the local state.
TimerFires ==
  /\ fn.pc = "sidebar"
  /\ fn.timer.pending
  /\ \E next \in {IF fn.timer.searchQuery # fn.timer.filters.searchQuery
                  THEN [fn.timer.filters EXCEPT !.searchQuery = fn.timer.searchQuery]
                  ELSE fn.filters} :
       fn' = [fn EXCEPT !.filters = next,
                        !.searchQuery = IF next.searchQuery # fn.filters.searchQuery
                                        THEN next.searchQuery ELSE fn.searchQuery,
                        !.timer = [fn.timer EXCEPT !.pending = FALSE]]
  /\ UNCHANGED <<dbVars, now, drive, svc, imp, pass, report, ops>>

TypeText == \E q \in QueryPool \cup {<<>>} : setSearchQuery(q)

MoveSlider == \E range \in RangePool : handlePriceRangeChange(range)

SelectSort == \E sortBy \in SortOption : handleSortChange(sortBy)

NextSidebar == TypeText \/ MoveSlider \/ SelectSort \/ TimerFires

SpecSidebar == InitSidebar /\ [][NextSidebar]_vars

\* C29: a price-range or sort change made while a debounce timer is pending is
\* not lost: when the timer fires, the filter state holds the typed search text
\* and keeps the price range and the sort order it held just before.
C29_NoLostFilterChange ==
  [][TimerFires =>
       /\ fn'.filters.searchQuery = fn.searchQuery
       /\ fn'.filters.priceRange = fn.filters.priceRange
       /\ fn'.filters.sortBy = fn.filters.sortBy]_vars

\* ---------------------------------------------------------------------------
\* Further property of the sync status
\* ---------------------------------------------------------------------------

\* C30: whenever a sync-status call obtains the remote listing and no catalog
\* row holds an identifier that is absent from it, the report has
\* imagesSynced = true, whatever images no row references and whichever rows
\* share an identifier.
C30_SyncedWhenNothingDangles ==
  [][(report'.n # report.n /\ ~InitializeThrows(drive, svc)
        /\ Dangling(meat_cuts, drive) = {})
       => report'.imagesSynced]_vars

====
